---- MODULE Spec2Model ----
(***************************************************************************)
(* A model of the RAG subsystem of the therapy-session backend:            *)
(*   RAGService.indexDocument / search      (rag.service.ts)               *)
(*   PgVectorAdapter                        (adapters/pgvector.adapter.ts) *)
(*   SemanticChunker                        (semantic-chunker.strategy.ts) *)
(*   SessionsService.addEntry / updateSessionEmbedding                     *)
(*                                          (sessions.service.ts)          *)
(*                                                                         *)
(* Texts are sequences of units (a line of a dialogue, or a sentence of    *)
(* plain text).  A unit carries its speaker label, its token count as      *)
(* tiktoken would report it, and its one significant word.  Scores are     *)
(* integers in millionths (300000 stands for 0.3); embedding components    *)
(* are integers in thousandths, so a dot product of two embeddings is in   *)
(* millionths.                                                             *)
(***************************************************************************)
EXTENDS Integers, Sequences, FiniteSets, TLC

VARIABLES
    contextualRetrievalEnabled, \* RAGService.contextualRetrievalEnabled && openai
    sessions,       \* ids of the rows of the sessions table
    entries,        \* session id -> the session's entries, in insertion order
    responses,      \* what addEntry returned to its callers
    pendingIndex,   \* session id -> updateSessionEmbedding calls triggered, not yet run
    inflight,       \* indexDocument calls suspended inside upsertBatch's transaction
    store,          \* the session_chunks table: committed rows, in insertion order
    lastCall,       \* the indexDocument call that finished last: its input, its
                    \* outcome, the externals it invoked, what was logged for it,
                    \* the documents its transaction had saved, and whether it
                    \* repeated the content indexed last for its session
    lastIndexed,    \* session id -> the batch committed last for it (history)
    newestIndexed,  \* session id -> the committed batch whose call started last (history)
    unhandled,      \* rejections that escaped updateSessionEmbedding
    transcript,     \* session id -> Session.transcript
    lastSearch,     \* the search that returned last: its arguments and its result
    embedCall       \* the call of OpenAIEmbeddingProvider.embedBatch: its texts, the
                    \* sub-batch and retry it is at, the vectors gathered, the
                    \* delays slept for the sub-batch, the API's last answer

vars == <<contextualRetrievalEnabled, sessions, entries, responses, pendingIndex,
          inflight, store, lastCall, lastIndexed, newestIndexed, unhandled,
          transcript, lastSearch, embedCall>>

----------------------------------------------------------------------------
(* Bounds of the model *)

\* indexDocument calls that may be suspended in upsertBatch at the same time
MaxInflight == 2
\* entries a session may hold
MaxEntries == 2
\* the largest `limit` a search is called with
MaxLimit == 3
\* the most texts embedBatch is called with
MaxTexts == 130
\* the most candidates rerankWithMMR is called with
MaxCandidates == 3
\* the most items of a ranking that reciprocalRankFusion is given
MaxRanked == 3
\* the most calls of delete and deleteByMetadata in a behaviour
MaxDeletes == 2
\* the most lines or sentences of a text given to the chunker alone
MaxLines == 3
\* the length of an embedding, OpenAIEmbeddingProvider.dimensions: 1024 in the
\* code, scaled down
dimensions == 2

----------------------------------------------------------------------------
(* Program constants *)

maxChunkSize == 512
overlap == 50
\* OpenAIEmbeddingProvider
maxBatchSize == 128
maxRetries == 3
initialRetryDelay == 1000

----------------------------------------------------------------------------
(* Data *)

SessionIds == {"s1", "s2"}
\* metadata.sessionId absent
NoSessionId == "none"

\* the sessions of the search scenarios: three of one therapist, one of another
SearchSessionIds == {"s1", "s2", "s3", "s4"}
\* those of them that have a transcript, which was indexed
Transcribed == {"s1", "s2", "s3"}

therapistIdOf(s) == IF s = "s2" THEN "tB" ELSE "tA"
clientIdOf(s) == IF s = "s2" THEN "cB" ELSE "cA"

Unit(sp, tk, w) == [speaker |-> sp, tok |-> tk, word |-> w]

\* a whitespace-only line
BlankUnit == Unit("none", 0, "")

\* ''
TextEmpty == << >>
\* '   '
TextBlank == <<BlankUnit>>
\* a short dialogue: one chunk
TextShort == <<Unit("therapist", 300, "breathing"), Unit("client", 100, "better")>>
\* a long dialogue: the second line overflows the budget
TextLong == <<Unit("therapist", 300, "sleep"), Unit("client", 300, "anxiety"),
              Unit("therapist", 300, "breathing")>>

\* the rows of the sessions table in the order a query returns them
SessionOrder == <<"s1", "s2", "s3", "s4">>

\* a note in plain sentences: one chunk
TextNote == <<Unit("none", 200, "anxiety"), Unit("none", 100, "sleep")>>

\* the texts callers pass to indexDocument
Texts == {TextBlank, TextShort, TextLong}

\* AddEntryDto: speaker and content
EntryDtos == {[speaker |-> "therapist", content |-> Unit("none", 300, "breathing")],
              [speaker |-> "client", content |-> Unit("none", 100, "better")]}

\* the metadata.sessionEntries callers other than updateSessionEmbedding pass
EntryLists == {<< >>, <<[speaker |-> "therapist", content |-> Unit("none", 300, "breathing")]>>}

----------------------------------------------------------------------------
(* SemanticChunker *)

RECURSIVE SumTok(_)
SumTok(units) == IF units = << >> THEN 0 ELSE Head(units).tok + SumTok(Tail(units))

\* countTokens of one line or sentence
countTokens(unit) == unit.tok

\* countTokens(parts.join(sep)): tiktoken spends sepTok tokens on each separator
\* (one for '\n'; a space merges into the word that follows it)
countTokensJoined(units, sepTok) ==
    IF units = << >> THEN 0 ELSE SumTok(units) + (Len(units) - 1) * sepTok

\* s.trim().length > 0, for a line, a sentence or a chunk
NonBlankUnit(u) == u.tok > 0
NonBlank(units) == \E i \in 1..Len(units) : NonBlankUnit(units[i])

detectSpeakerTurns(text) == \E i \in 1..Len(text) : text[i].speaker # "none"

extractSpeaker(line) == line.speaker

isCompleteExchange(lines) ==
    /\ Len(lines) >= 2
    /\ LET lastSpeaker == extractSpeaker(lines[Len(lines)])
           secondLastSpeaker == extractSpeaker(lines[Len(lines) - 1])
       IN  /\ lastSpeaker # secondLastSpeaker
           /\ lastSpeaker # "none"
           /\ secondLastSpeaker # "none"

\* getOverlapLines and getOverlapSentences: the longest suffix taken line by
\* line from the end while the running total stays within `overlap`
RECURSIVE OverlapFrom(_, _, _, _)
OverlapFrom(units, i, acc, accTokens) ==
    IF i < 1 THEN acc
    ELSE IF accTokens + countTokens(units[i]) > overlap THEN acc
    ELSE OverlapFrom(units, i - 1, <<units[i]>> \o acc, accTokens + countTokens(units[i]))

getOverlapLines(lines) == OverlapFrom(lines, Len(lines), << >>, 0)
getOverlapSentences(sentences) == OverlapFrom(sentences, Len(sentences), << >>, 0)

RECURSIVE DialogueLoop(_, _, _, _, _)
DialogueLoop(lines, i, chunks, currentChunk, currentTokens) ==
    IF i > Len(lines)
    THEN IF Len(currentChunk) > 0 THEN Append(chunks, currentChunk) ELSE chunks
    ELSE LET line == lines[i]
             lineTokens == countTokens(line)
         IN  IF currentTokens + lineTokens > maxChunkSize /\ Len(currentChunk) > 0
             THEN IF isCompleteExchange(currentChunk)
                  THEN LET next == Append(getOverlapLines(currentChunk), line)
                       IN  DialogueLoop(lines, i + 1, Append(chunks, currentChunk),
                                        next, countTokensJoined(next, 1))
                  ELSE DialogueLoop(lines, i + 1,
                                    Append(chunks, Append(currentChunk, line)), << >>, 0)
             ELSE DialogueLoop(lines, i + 1, chunks, Append(currentChunk, line),
                               currentTokens + lineTokens)

chunkByDialogue(text) ==
    LET lines == SelectSeq(text, NonBlankUnit)
    IN  SelectSeq(DialogueLoop(lines, 1, << >>, << >>, 0), NonBlank)

\* the sentences of a text; a text without any sentence is returned whole
splitIntoSentences(text) ==
    LET sentences == SelectSeq(text, NonBlankUnit)
    IN  IF Len(sentences) > 0 THEN sentences ELSE <<BlankUnit>>

RECURSIVE SentenceLoop(_, _, _, _, _)
SentenceLoop(sentences, i, chunks, currentChunk, currentTokens) ==
    IF i > Len(sentences)
    THEN IF Len(currentChunk) > 0 THEN Append(chunks, currentChunk) ELSE chunks
    ELSE LET sentence == sentences[i]
             sentenceTokens == countTokens(sentence)
         IN  IF currentTokens + sentenceTokens > maxChunkSize /\ Len(currentChunk) > 0
             THEN LET next == Append(getOverlapSentences(currentChunk), sentence)
                  IN  SentenceLoop(sentences, i + 1, Append(chunks, currentChunk),
                                   next, countTokensJoined(next, 0))
             ELSE SentenceLoop(sentences, i + 1, chunks, Append(currentChunk, sentence),
                               currentTokens + sentenceTokens)

chunkBySentences(text) ==
    SelectSeq(SentenceLoop(splitIntoSentences(text), 1, << >>, << >>, 0), NonBlank)

chunkText(text) ==
    IF detectSpeakerTurns(text) THEN chunkByDialogue(text) ELSE chunkBySentences(text)

\* SemanticChunker.process: only `text` is chunked; metadata (and with it
\* metadata.sessionEntries) is copied into each chunk's metadata
process(text, metadata) ==
    LET chunks == chunkText(text)
    IN  [index \in 1..Len(chunks) |->
            [text |-> chunks[index],
             metadata |-> [chunkIndex |-> index - 1,
                           totalChunks |-> Len(chunks),
                           tokenCount |-> countTokensJoined(chunks[index],
                               IF detectSpeakerTurns(text) THEN 1 ELSE 0)]]]

----------------------------------------------------------------------------
(* Embedding provider (a deterministic one: a pure function of its input) *)

\* a vector cut or padded with zeros to n components
Resize(v, n) == [i \in 1..n |-> IF i <= Len(v) THEN v[i] ELSE 0]

getDimensions == dimensions

\* the unit vector the embedding model produces for a text about word w
WordVec(w) ==
    Resize(CASE w = "breathing" -> <<1000, 0>>
             [] w = "sleep"     -> <<0, 1000>>
             [] w = "better"    -> <<600, 800>>
             [] w = "anxiety"   -> <<800, 600>>
             [] OTHER           -> <<-600, 800>>,
           getDimensions)

\* the vector of `${context}\n\n${chunk.text}`, or of chunk.text when the
\* context is ''
embedText(context, text) ==
    LET v == WordVec(text[1].word)
    IN  IF context = "" THEN v ELSE <<v[2], v[1]>>

\* embedBatch as the provider answers it: every vector ("ok"), an API error
\* ("throws"), one vector fewer than asked for ("short"), or one more ("long")
EmbedOutcomes == {"ok", "throws", "short", "long"}

embedBatch(contexts, chunks, outcome) ==
    LET all == [i \in 1..Len(chunks) |-> embedText(contexts[i], chunks[i].text)]
    IN  IF outcome = "short" THEN SubSeq(all, 1, Len(chunks) - 1)
        ELSE IF outcome = "long" THEN Append(all, all[Len(all)])
        ELSE all

\* the summaries generateContextForChunk may return for n chunks: '' where the
\* completion failed or came back empty
ContextOutcomes(n) ==
    IF contextualRetrievalEnabled THEN [1..n -> {"", "summary"}] ELSE {[i \in 1..n |-> ""]}

----------------------------------------------------------------------------
(* RAGService.indexDocument up to the call of upsertBatch *)

Null == "null"

Metadata(sessionId, sessionEntries) ==
    [sessionId |-> sessionId,
     therapistId |-> IF sessionId = NoSessionId THEN Null ELSE therapistIdOf(sessionId),
     clientId |-> IF sessionId = NoSessionId THEN Null ELSE clientIdOf(sessionId),
     sessionEntries |-> sessionEntries]

\* a faulty variant: a fresh id for every document, as a generated key would be
generateDocumentIdFresh(sessionId, chunkIndex) ==
    <<sessionId, "chunk", chunkIndex + Len(store)>>

\* a faulty variant: the id is made of the chunk's index only
generateDocumentIdOfIndex(sessionId, chunkIndex) == <<"", "chunk", chunkIndex>>

generateDocumentId(sessionId, chunkIndex) == <<sessionId, "chunk", chunkIndex>>

hasText(text) == NonBlank(text)
hasSessionEntries(metadata) == Len(metadata.sessionEntries) > 0

ErrNoContent == "Either text content or sessionEntries is required for indexing"
ErrNoSessionId == "SessionId is required in metadata"
ErrNoChunks == "Document chunking produced no results"
ErrEmbedding == "Embedding failed"
ErrCount == "Embedding count mismatch"
ErrStorage == "upsertBatch failed"

\* a faulty variant: the check of metadata.sessionId (lines 70-72) is missing
validateInputContentOnly(text, metadata) ==
    IF ~hasText(text) /\ ~hasSessionEntries(metadata) THEN ErrNoContent ELSE "ok"

\* lines 63-72: "ok", or the message of the error thrown
validateInput(text, metadata) ==
    IF ~hasText(text) /\ ~hasSessionEntries(metadata) THEN ErrNoContent
    ELSE IF metadata.sessionId = NoSessionId THEN ErrNoSessionId
    ELSE "ok"

\* a faulty variant: only a missing vector is a mismatch, a surplus is cut off
countMismatchFewerOnly(embeddings, chunks) == Len(embeddings) < Len(chunks)

\* lines 105-109: embeddings.length !== chunks.length
countMismatch(embeddings, chunks) == Len(embeddings) # Len(chunks)

\* the number of vectors the provider returned is not known: it was not called,
\* or it threw
NotEmbedded == -1

\* a faulty variant: the text stored is the text that was embedded, the
\* context summary in front of the chunk
vectorDocumentsEmbeddedText(chunks, embeddings, contextSummaries, metadata) ==
    [index \in 1..Len(chunks) |->
        [id |-> generateDocumentId(metadata.sessionId, index - 1),
         embedding |-> embeddings[index],
         text |-> IF contextSummaries[index] = "" THEN chunks[index].text
                  ELSE <<Unit("none", 80, contextSummaries[index])>> \o chunks[index].text,
         metadata |-> [sessionId |-> metadata.sessionId,
                       therapistId |-> metadata.therapistId,
                       clientId |-> metadata.clientId,
                       chunkIndex |-> chunks[index].metadata.chunkIndex,
                       totalChunks |-> chunks[index].metadata.totalChunks,
                       contextSummary |-> IF contextSummaries[index] = ""
                                          THEN Null ELSE contextSummaries[index],
                       contextualized |-> contextSummaries[index] # ""]]]

\* lines 111-126
vectorDocuments(chunks, embeddings, contextSummaries, metadata) ==
    [index \in 1..Len(chunks) |->
        [id |-> generateDocumentId(metadata.sessionId, index - 1),
         embedding |-> embeddings[index],
         text |-> chunks[index].text,
         metadata |-> [sessionId |-> metadata.sessionId,
                       therapistId |-> metadata.therapistId,
                       clientId |-> metadata.clientId,
                       chunkIndex |-> chunks[index].metadata.chunkIndex,
                       totalChunks |-> chunks[index].metadata.totalChunks,
                       contextSummary |-> IF contextSummaries[index] = ""
                                          THEN Null ELSE contextSummaries[index],
                       contextualized |-> contextSummaries[index] # ""]]]

\* lines 62-126: what indexDocument has done when it reaches upsertBatch, or the
\* error it threw before.  `contexts` are the summaries the completions return
\* and `outcome` is the embedding provider's answer.
prepareIndex(text, metadata, contexts, outcome) ==
    LET valid == validateInput(text, metadata)
        chunks == process(text, metadata)
        contextSummaries == contexts
        externals == <<"chunker">> \o
                     (IF contextualRetrievalEnabled THEN <<"context">> ELSE << >>)
        embeddings == embedBatch(contextSummaries, chunks, outcome)
    IN  IF valid # "ok"
        THEN [error |-> valid, calls |-> << >>, chunks |-> 0, documents |-> << >>,
              embedded |-> NotEmbedded]
        ELSE IF Len(chunks) = 0
        THEN [error |-> ErrNoChunks, calls |-> <<"chunker">>, chunks |-> 0,
              documents |-> << >>, embedded |-> NotEmbedded]
        ELSE IF outcome = "throws"
        THEN [error |-> ErrEmbedding, calls |-> Append(externals, "embedding"),
              chunks |-> Len(chunks), documents |-> << >>, embedded |-> NotEmbedded]
        ELSE IF countMismatch(embeddings, chunks)
        THEN [error |-> ErrCount, calls |-> Append(externals, "embedding"),
              chunks |-> Len(chunks), documents |-> << >>,
              embedded |-> Len(embeddings)]
        ELSE [error |-> "none", calls |-> Append(externals, "embedding"),
              chunks |-> Len(chunks),
              documents |-> vectorDocuments(chunks, embeddings, contextSummaries, metadata),
              embedded |-> Len(embeddings)]

----------------------------------------------------------------------------
(* PgVectorAdapter: rows and upsert *)

\* manager.create(SessionChunk, {...}) of upsert and upsertBatch
SessionChunk(doc) ==
    [id |-> doc.id,
     sessionId |-> doc.metadata.sessionId,
     therapistId |-> doc.metadata.therapistId,
     clientId |-> doc.metadata.clientId,
     chunkIndex |-> doc.metadata.chunkIndex,
     totalChunks |-> doc.metadata.totalChunks,
     text |-> doc.text,
     contextSummary |-> doc.metadata.contextSummary,
     embedding |-> doc.embedding]

\* manager.save(chunk): the row with the chunk's primary key is replaced, a new
\* key is inserted
save(rows, chunk) ==
    IF \E i \in 1..Len(rows) : rows[i].id = chunk.id
    THEN [i \in 1..Len(rows) |-> IF rows[i].id = chunk.id THEN chunk ELSE rows[i]]
    ELSE Append(rows, chunk)

RECURSIVE saveAll(_, _)
saveAll(rows, documents) ==
    IF documents = << >> THEN rows
    ELSE saveAll(save(rows, SessionChunk(Head(documents))), Tail(documents))

\* a faulty variant: every save is written through, as upsertBatch without a
\* transaction would do
visibleBeforeCommitWriteThrough(rows, documents, k) ==
    saveAll(rows, SubSeq(documents, 1, k))

\* what a transaction that has saved the first k documents makes visible to
\* other connections before it commits
visibleBeforeCommit(rows, documents, k) == rows

\* what the commit of a transaction that saved all the documents leaves
commit(rows, documents) == saveAll(rows, documents)

\* PgVectorAdapter.upsert (lines 33-54): the document's row is created and saved
upsert(rows, document) == save(rows, SessionChunk(document))

\* the errors of delete and deleteByMetadata; "" stands for no error
ErrVectorNotFound == "Vector with id not found"
ErrNoVectorsMatch == "No vectors found matching the filter criteria"

\* a faulty variant: the rows are deleted and affected is not looked at
deleteUnchecked(rows, id) ==
    LET Other(row) == row.id # id
    IN  [rows |-> SelectSeq(rows, Other),
         affected |-> Len(rows) - Len(SelectSeq(rows, Other)), thrown |-> ""]

\* PgVectorAdapter.delete (lines 241-247): chunksRepository.delete({ id }),
\* then the throw if no row was affected
delete(rows, id) ==
    LET Other(row) == row.id # id
        affected == Len(rows) - Len(SelectSeq(rows, Other))
    IN  [rows |-> SelectSeq(rows, Other), affected |-> affected,
         thrown |-> IF affected = 0 THEN ErrVectorNotFound ELSE ""]

\* a filter of deleteByMetadata: Null stands for a property that is absent
DeleteFilter(therapistId, sessionId, clientId) ==
    [therapistId |-> therapistId, sessionId |-> sessionId, clientId |-> clientId]

\* the conditions the delete query is built with (lines 252-268): one per
\* property of the filter that is given, and none if none is given
deleteWhere(row, filter) ==
    /\ (filter.therapistId # Null) => row.therapistId = filter.therapistId
    /\ (filter.sessionId # Null) => row.sessionId = filter.sessionId
    /\ (filter.clientId # Null) => row.clientId = filter.clientId

\* PgVectorAdapter.deleteByMetadata (lines 249-275)
deleteByMetadata(rows, filter) ==
    LET Kept(row) == ~deleteWhere(row, filter)
        affected == Len(rows) - Len(SelectSeq(rows, Kept))
    IN  [rows |-> SelectSeq(rows, Kept), affected |-> affected,
         thrown |-> IF affected = 0 THEN ErrNoVectorsMatch ELSE ""]

----------------------------------------------------------------------------
(* PgVectorAdapter: search *)

Min(a, b) == IF a < b THEN a ELSE b
Max(a, b) == IF a > b THEN a ELSE b

\* Math.sqrt, rounded down, by bisection
RECURSIVE SqrtBetween(_, _, _)
SqrtBetween(lo, hi, x) ==
    IF hi - lo <= 1 THEN lo
    ELSE LET mid == (lo + hi) \div 2
         IN  IF mid * mid <= x THEN SqrtBetween(mid, hi, x) ELSE SqrtBetween(lo, mid, x)

Sqrt(x) == SqrtBetween(0, 46340, x)

RECURSIVE SumProducts(_, _, _)
SumProducts(vecA, vecB, i) ==
    IF i > Len(vecA) THEN 0
    ELSE vecA[i] * vecB[i] + SumProducts(vecA, vecB, i + 1)

\* 1.0 in millionths
One == 1000000

\* lines 315-330: 0 on a dimension mismatch, else the dot product clamped to [-1, 1]
dotProductSimilarity(vecA, vecB) ==
    IF Len(vecA) # Len(vecB) THEN 0
    ELSE Max(-One, Min(One, SumProducts(vecA, vecB, 1)))

\* 1 - (embedding <=> $1::vector): the cosine similarity pgvector computes
pgCosineSimilarity(vecA, vecB) ==
    LET normA == Sqrt(SumProducts(vecA, vecA, 1))
        normB == Sqrt(SumProducts(vecB, vecB, 1))
    IN  (((SumProducts(vecA, vecB, 1) * 1000) \div normA) * 1000) \div normB

\* a filter of search: Null and {} stand for an absent property
Filter(therapistId, sessionId, sessionIds) ==
    [therapistId |-> therapistId, sessionId |-> sessionId, sessionIds |-> sessionIds]

\* a faulty variant: the conditions on the sessions only, not on the therapist
jsWhereSessionsOnly(chunk, filter) ==
    IF filter.sessionIds # {}
    THEN chunk.sessionId \in filter.sessionIds
    ELSE (filter.sessionId # Null) => chunk.sessionId = filter.sessionId

\* the query builder's conditions of searchWithJavaScript (lines 197-211)
jsWhere(chunk, filter) ==
    /\ (filter.therapistId # Null) => chunk.therapistId = filter.therapistId
    /\ IF filter.sessionIds # {}
       THEN chunk.sessionId \in filter.sessionIds
       ELSE (filter.sessionId # Null) => chunk.sessionId = filter.sessionId

\* the WHERE conditions of searchWithPgVector (lines 113-131), the similarity
\* threshold apart
pgWhere(row, filter) ==
    /\ (filter.therapistId # Null) => row.therapistId = filter.therapistId
    /\ IF filter.sessionIds # {}
       THEN row.sessionId \in filter.sessionIds
       ELSE (filter.sessionId # Null) => row.sessionId = filter.sessionId

\* the SearchResult built from a row and its score
SearchResult(row, score) ==
    [id |-> row.id, score |-> score, text |-> row.text, embedding |-> row.embedding,
     metadata |-> [sessionId |-> row.sessionId, therapistId |-> row.therapistId,
                   clientId |-> row.clientId, chunkIndex |-> row.chunkIndex,
                   totalChunks |-> row.totalChunks,
                   contextSummary |-> row.contextSummary]]

\* Array.prototype.sort((a, b) => b.score - a.score): stable, by insertion
InsertByScore(sorted, result) ==
    LET k == Cardinality({i \in 1..Len(sorted) : sorted[i].score >= result.score})
    IN  SubSeq(sorted, 1, k) \o <<result>> \o SubSeq(sorted, k + 1, Len(sorted))

RECURSIVE sortByScore(_)
sortByScore(results) ==
    IF results = << >> THEN << >>
    ELSE InsertByScore(sortByScore(SubSeq(results, 1, Len(results) - 1)),
                       results[Len(results)])

\* Array.prototype.slice(0, n)
slice(results, n) == SubSeq(results, 1, Min(n, Len(results)))

Reverse(seq) == [i \in 1..Len(seq) |-> seq[Len(seq) + 1 - i]]

\* a faulty variant: the first `limit` chunks are scored, floored and sorted
searchWithJavaScriptTruncateFirst(rows, queryEmbedding, limit, filter, minSimilarity) ==
    LET Where(chunk) == jsWhere(chunk, filter)
        chunks == slice(SelectSeq(rows, Where), limit)
        mapped == [i \in 1..Len(chunks) |->
                      SearchResult(chunks[i],
                                   dotProductSimilarity(queryEmbedding, chunks[i].embedding))]
        Floor(result) == result.score >= minSimilarity
    IN  sortByScore(SelectSeq(mapped, Floor))

\* a faulty variant: no similarity floor
searchWithJavaScriptNoFloor(rows, queryEmbedding, limit, filter, minSimilarity) ==
    LET Where(chunk) == jsWhere(chunk, filter)
        chunks == SelectSeq(rows, Where)
        mapped == [i \in 1..Len(chunks) |->
                      SearchResult(chunks[i],
                                   dotProductSimilarity(queryEmbedding, chunks[i].embedding))]
    IN  slice(sortByScore(mapped), limit)

\* searchWithJavaScript (lines 189-239)
searchWithJavaScript(rows, queryEmbedding, limit, filter, minSimilarity) ==
    LET Where(chunk) == jsWhere(chunk, filter)
        chunks == SelectSeq(rows, Where)
        mapped == [i \in 1..Len(chunks) |->
                      SearchResult(chunks[i],
                                   dotProductSimilarity(queryEmbedding, chunks[i].embedding))]
        Floor(result) == result.score >= minSimilarity
    IN  slice(sortByScore(SelectSeq(mapped, Floor)), limit)

\* the query of searchWithPgVector (lines 139-174).  ORDER BY leaves the order
\* of rows at the same distance to the scan: `scan` is "forward" or "reverse"
pgQuery(rows, scan, queryEmbedding, limit, filter, minSimilarity) ==
    LET scanned == IF scan = "forward" THEN rows ELSE Reverse(rows)
        Where(row) == /\ pgWhere(row, filter)
                      /\ pgCosineSimilarity(row.embedding, queryEmbedding) >= minSimilarity
        selected == SelectSeq(scanned, Where)
        mapped == [i \in 1..Len(selected) |->
                      SearchResult(selected[i],
                                   pgCosineSimilarity(selected[i].embedding, queryEmbedding))]
    IN  slice(sortByScore(mapped), limit)

\* how the database answers: its type, and for postgres the scan order of the
\* query or its failure
Databases ==
    {[type |-> "sqlite", scan |-> "forward", fails |-> FALSE],
     [type |-> "postgres", scan |-> "forward", fails |-> FALSE],
     [type |-> "postgres", scan |-> "reverse", fails |-> FALSE],
     [type |-> "postgres", scan |-> "forward", fails |-> TRUE]}

\* searchWithPgVector (lines 106-182): the query, or the fallback of its catch
searchWithPgVector(rows, db, queryEmbedding, limit, filter, minSimilarity) ==
    IF db.fails
    THEN searchWithJavaScript(rows, queryEmbedding, limit, filter, minSimilarity)
    ELSE pgQuery(rows, db.scan, queryEmbedding, limit, filter, minSimilarity)

\* PgVectorAdapter.search (lines 83-99)
search(rows, db, queryEmbedding, limit, filter, minSimilarity) ==
    IF db.type = "postgres"
    THEN searchWithPgVector(rows, db, queryEmbedding, limit, filter, minSimilarity)
    ELSE searchWithJavaScript(rows, queryEmbedding, limit, filter, minSimilarity)

----------------------------------------------------------------------------
(* OpenAIEmbeddingProvider in detail: sub-batches, retries, validation.  A
   text is named by a number; its `chars` tell whether it is blank, within
   maxInputLength ("short"), over it ("long"), or was cut to it ("cut"). *)

EmbedText(id, chars) == [id |-> id, chars |-> chars]

\* preprocess (lines 59-74) of a text that is not blank: a text over
\* maxInputLength is cut to it
preprocess(text) == IF text.chars = "long" THEN EmbedText(text.id, "cut") ELSE text

\* preprocess throws for this text: it is empty after trimming
isBlankText(text) == text.chars = "blank"

\* chunkArray (lines 159-165)
RECURSIVE chunkArray(_, _)
chunkArray(arr, size) ==
    IF Len(arr) = 0 THEN << >>
    ELSE <<SubSeq(arr, 1, Min(size, Len(arr)))>>
         \o chunkArray(SubSeq(arr, Min(size, Len(arr)) + 1, Len(arr)), size)

\* the unit vector the embedding model produces for a text: one per text id
apiVector(text) ==
    LET x == 1000 - 5 * text.id
    IN  Resize(<<x, Sqrt(One - x * x)>>, getDimensions)

\* what openai.embeddings.create answers for a sub-batch: a response whose
\* data holds a vector per input in input order ("ok"), all but the last
\* ("short"), vectors that are not normalized ("scaled") or one vector of a
\* wrong length ("badDims"); or an error with its status and code (0 and ""
\* where the error has none)
ApiResponse(data) == [kind |-> "response", data |-> data, status |-> 0, code |-> ""]
ApiError(status, code) == [kind |-> "error", data |-> "", status |-> status, code |-> code]

NoAnswer == [kind |-> "none", data |-> "", status |-> 0, code |-> ""]

ApiAnswers ==
    {ApiResponse(d) : d \in {"ok", "short", "scaled", "badDims"}}
    \cup {ApiError(st, "") : st \in {400, 401, 429, 500, 503}}
    \cup {ApiError(0, c) : c \in {"ETIMEDOUT", "ECONNRESET"}}

\* response.data.map(item => item.embedding) (lines 107-109)
responseEmbeddings(texts, data) ==
    LET all == [i \in 1..Len(texts) |-> apiVector(texts[i])]
    IN  CASE data = "short"   -> SubSeq(all, 1, Len(all) - 1)
          [] data = "scaled"  -> [i \in 1..Len(all) |->
                                     [j \in 1..Len(all[i]) |-> 2 * all[i][j]]]
          [] data = "badDims" -> [all EXCEPT ![1] = Resize(@, getDimensions - 1)]
          [] OTHER            -> all

\* validateEmbeddings (lines 136-157) throws: a vector is not of the declared length
invalidEmbeddings(embeddings) ==
    \E i \in 1..Len(embeddings) : Len(embeddings[i]) # getDimensions

\* validateEmbeddings (lines 147-155): a vector whose norm is off 1 by more
\* than 0.01 is normalized in place
normalized(emb) ==
    LET norm == Sqrt(SumProducts(emb, emb, 1))
    IN  IF norm - 1000 > 10 \/ 1000 - norm > 10
        THEN [j \in 1..Len(emb) |-> (emb[j] * 1000) \div norm]
        ELSE emb

validateEmbeddings(embeddings) ==
    [i \in 1..Len(embeddings) |-> normalized(embeddings[i])]

RECURSIVE Pow2(_)
Pow2(n) == IF n = 0 THEN 1 ELSE 2 * Pow2(n - 1)

\* a faulty variant: server errors are not retried
isRetriableRateLimitOnly(error) ==
    \/ error.status = 429
    \/ error.code = "ETIMEDOUT"

\* lines 113-116
isRetriable(error) ==
    \/ error.status = 429
    \/ (error.status # 0 /\ error.status >= 500)
    \/ error.code = "ETIMEDOUT"

ErrTextsEmpty == "Texts must be a non-empty array"
ErrTextBlank == "Text is empty after trimming"

NoEmbedCall ==
    [phase |-> "idle", texts |-> << >>, batches |-> << >>, batch |-> 0, retry |-> 0,
     results |-> << >>, slept |-> << >>, answer |-> NoAnswer, error |-> "none",
     complete |-> TRUE]

\* a faulty variant: the sub-batches are gathered in front of the earlier ones
gatherInFront(results, embeddings) == embeddings \o results

\* results.push(...embeddings) (line 84)
gather(results, embeddings) == results \o embeddings

\* one attempt of embedWithRetry (lines 95-134) for the sub-batch the call is
\* at, answered by the API with `answer`, and what embedBatchInternal (lines
\* 76-93) does with its result.  `complete` (history) tells whether every
\* response accepted so far held one item per input.
embedWithRetry(call, answer) ==
    LET texts == call.batches[call.batch]
        embeddings == responseEmbeddings(texts, answer.data)
        thrown == [call EXCEPT !.phase = "threw", !.answer = answer,
                               !.error = ErrEmbedding]
    IN  IF answer.kind = "response"
        THEN IF invalidEmbeddings(embeddings) THEN thrown
             ELSE LET results == gather(call.results, validateEmbeddings(embeddings))
                  IN  IF call.batch = Len(call.batches)
                      THEN [call EXCEPT !.phase = "returned", !.answer = answer,
                                        !.results = validateEmbeddings(results),
                                        !.complete = @ /\ Len(embeddings) = Len(texts)]
                      ELSE [call EXCEPT !.batch = @ + 1, !.retry = 0, !.slept = << >>,
                                        !.answer = answer, !.results = results,
                                        !.complete = @ /\ Len(embeddings) = Len(texts)]
        ELSE IF isRetriable(answer) /\ call.retry < maxRetries
             THEN [call EXCEPT !.retry = @ + 1, !.answer = answer,
                               !.slept = Append(@, initialRetryDelay * Pow2(call.retry))]
             ELSE thrown

----------------------------------------------------------------------------
(* HybridSearchStrategy *)

\* tokenize, and the reranker's extractSignificantWordsArray: the words of a
\* text in order, a speaker label being a word of its line
RECURSIVE tokenize(_)
tokenize(text) ==
    IF text = << >> THEN << >>
    ELSE (IF Head(text).speaker # "none" THEN <<Head(text).speaker>> ELSE << >>)
         \o (IF Head(text).word # "" THEN <<Head(text).word>> ELSE << >>)
         \o tokenize(Tail(text))

\* termFrequency(terms).get(term) ?? 0
termFrequency(terms, term) == Cardinality({i \in 1..Len(terms) : terms[i] = term})

\* the text keywordSearch scores for a session (lines 84-94 of the strategy)
searchableText(s) ==
    IF Len(entries[s]) > 0
    THEN [i \in 1..Len(entries[s]) |->
             Unit(entries[s][i].speaker, entries[s][i].content.tok,
                  entries[s][i].content.word)]
    ELSE transcript[s]

\* Math.log((totalDocs - df + 0.5) / (df + 0.5)) in thousandths, where
\* df = max(1, floor(totalDocs * 0.05)) is 1 for fewer than 40 documents
idf(totalDocs) ==
    CASE totalDocs = 1 -> -1099
      [] totalDocs = 2 -> 0
      [] totalDocs = 3 -> 511
      [] totalDocs = 4 -> 847
      [] OTHER         -> 1099

RECURSIVE SumTerms(_, _, _, _, _)
SumTerms(queryTerms, docTerms, totalDocs, totalLength, i) ==
    IF i > Len(queryTerms) THEN 0
    ELSE LET tf == termFrequency(docTerms, queryTerms[i])
             docLength == IF Len(docTerms) = 0 THEN 1 ELSE Len(docTerms)
             \* docLength / avgDocLength in thousandths
             ratio == (docLength * totalDocs * 1000) \div totalLength
             denominator == tf * 1000 + (1500 * (250 + (750 * ratio) \div 1000)) \div 1000
         IN  (IF tf = 0 THEN 0
              ELSE idf(totalDocs) * ((tf * 2500 * 1000) \div denominator))
             + SumTerms(queryTerms, docTerms, totalDocs, totalLength, i + 1)

\* bm25Score with k1 = 1.5 and b = 0.75; avgDocLength = totalLength / totalDocs
bm25Score(queryTerms, docTerms, totalDocs, totalLength) ==
    SumTerms(queryTerms, docTerms, totalDocs, totalLength, 1)

RECURSIVE SumLengths(_)
SumLengths(docs) ==
    IF docs = << >> THEN 0 ELSE Len(tokenize(Head(docs).text)) + SumLengths(Tail(docs))

\* keywordSearch (lines 58-132): BM25 over the sessions the filter selects.
\* A result's id is the session's id; ids are tuples of their parts, so a
\* session id is a tuple of one part.
keywordSearch(query, limit, filter) ==
    LET Selected(s) == /\ s \in sessions
                       /\ (filter.therapistId # Null) => therapistIdOf(s) = filter.therapistId
                       /\ (filter.sessionIds # {}) => s \in filter.sessionIds
        ids == SelectSeq(SessionOrder, Selected)
        documents == [i \in 1..Len(ids) |->
                         [id |-> <<ids[i]>>, score |-> 0, text |-> searchableText(ids[i]),
                          embedding |-> << >>,
                          metadata |-> [sessionId |-> ids[i],
                                        therapistId |-> therapistIdOf(ids[i]),
                                        clientId |-> clientIdOf(ids[i])]]]
        totalLength == SumLengths(documents)
        scored == [i \in 1..Len(documents) |->
                      [documents[i] EXCEPT !.score =
                          bm25Score(tokenize(query), tokenize(documents[i].text),
                                    Len(documents), totalLength)]]
        Positive(d) == d.score > 0
    IN  slice(sortByScore(SelectSeq(scored, Positive)), limit)

\* the constant k of reciprocalRankFusion
rrfK == 60

RECURSIVE RankSum(_, _, _, _)
RankSum(results, id, weight, rank) ==
    IF rank > Len(results) THEN 0
    ELSE (IF results[rank].id = id THEN weight \div (rrfK + rank) ELSE 0)
         + RankSum(results, id, weight, rank + 1)

\* scores.set(id, rrfScore), had the second loop not added to the first's score
fusedScoreLastListWins(semanticResults, keywordResults, id, alpha) ==
    IF \E rank \in 1..Len(keywordResults) : keywordResults[rank].id = id
    THEN RankSum(keywordResults, id, One - alpha, 1)
    ELSE RankSum(semanticResults, id, alpha, 1)

\* scores.get(id) after the two loops (lines 146-160)
fusedScore(semanticResults, keywordResults, id, alpha) ==
    RankSum(semanticResults, id, alpha, 1) + RankSum(keywordResults, id, One - alpha, 1)

\* reciprocalRankFusion (lines 138-172): the ids in the order the Map received
\* them, each with alpha / (k + rank + 1) summed over the lists, then sorted
reciprocalRankFusion(semanticResults, keywordResults, alpha) ==
    LET FirstAt(results, i) == \A j \in 1..(i - 1) : results[j].id # results[i].id
        LastAt(results, i) == \A j \in (i + 1)..Len(results) : results[j].id # results[i].id
        semanticIds == {semanticResults[i].id : i \in 1..Len(semanticResults)}
        IsFirstSemantic(i) == FirstAt(semanticResults, i)
        IsNewKeyword(i) == /\ FirstAt(keywordResults, i)
                           /\ keywordResults[i].id \notin semanticIds
        semanticKeys == SelectSeq([i \in 1..Len(semanticResults) |-> i], IsFirstSemantic)
        keywordKeys == SelectSeq([i \in 1..Len(keywordResults) |-> i], IsNewKeyword)
        Fused(id) == fusedScore(semanticResults, keywordResults, id, alpha)
        Document(id) ==
            IF id \in semanticIds
            THEN semanticResults[CHOOSE i \in 1..Len(semanticResults) :
                                    semanticResults[i].id = id /\ LastAt(semanticResults, i)]
            ELSE keywordResults[CHOOSE i \in 1..Len(keywordResults) :
                                    keywordResults[i].id = id /\ FirstAt(keywordResults, i)]
        entriesOfMap ==
            [i \in 1..Len(semanticKeys) |-> semanticResults[semanticKeys[i]].id]
            \o [i \in 1..Len(keywordKeys) |-> keywordResults[keywordKeys[i]].id]
    IN  sortByScore([i \in 1..Len(entriesOfMap) |->
                        [Document(entriesOfMap[i]) EXCEPT !.score = Fused(entriesOfMap[i])]])

\* HybridSearchStrategy.search (lines 25-53)
hybridSearch(rows, db, query, limit, alpha, filter, minSimilarity) ==
    LET semanticResults == search(rows, db, embedText("", query), limit * 2, filter,
                                  minSimilarity)
        keywordResults == keywordSearch(query, limit * 2, filter)
    IN  slice(reciprocalRankFusion(semanticResults, keywordResults, alpha), limit)

----------------------------------------------------------------------------
(* CrossEncoderReranker *)

\* 0.1 in millionths
MIN_RELEVANCE_THRESHOLD == 100000

Range(seq) == {seq[i] : i \in 1..Len(seq)}

\* what the rerank services answer.  Cohere: no key ("absent"), an error
\* ("throws"), the documents as ranked with relevance scores ("ranked"), or in
\* reverse without scores ("unscored").  OpenAI: no key, an error, a content
\* that is no JSON ("unparseable"), the indices in reverse ("reversed"), an
\* index twice ("duplicate"), or an index past the list ("outOfRange").
Rerankers ==
    {[cohere |-> c, openai |-> "absent"] : c \in {"ranked", "unscored"}}
    \cup {[cohere |-> "throws", openai |-> o] : o \in {"unparseable", "reversed"}}
    \cup {[cohere |-> "absent", openai |-> o] : o \in {"absent", "duplicate", "outOfRange"}}

NoReranker == [cohere |-> "absent", openai |-> "absent"]

\* data.results of the Cohere answer for n documents and top_n; `scored` tells
\* whether the item has a relevance_score
CohereResults(answer, n, topN) ==
    [rank \in 1..topN |->
        [index |-> IF answer = "ranked" THEN rank - 1 ELSE n - rank,
         scored |-> answer # "unscored",
         relevance_score |-> IF answer = "unscored" THEN 0 ELSE 900000 \div rank]]

\* rerankWithCohere (lines 89-132), the request having succeeded
rerankWithCohere(results, topK, answer) ==
    LET data == CohereResults(answer, Len(results), Min(topK, Len(results)))
        InRange(item) == item.index + 1 \in 1..Len(results)
        items == SelectSeq(data, InRange)
    IN  slice([i \in 1..Len(items) |->
                  [results[items[i].index + 1] EXCEPT !.score =
                      IF items[i].scored THEN items[i].relevance_score ELSE @]], topK)

\* the array of indices parsed from the OpenAI answer for n documents
OpenAIIndices(answer, n) ==
    CASE answer = "reversed"   -> [i \in 1..n |-> n - i]
      [] answer = "duplicate"  -> <<0, 0>>
      [] answer = "outOfRange" -> <<n>>
      [] OTHER                 -> << >>

\* rerankWithOpenAI (lines 138-194), the completion having succeeded
rerankWithOpenAI(results, topK, answer) ==
    LET capped == slice(results, Min(Len(results), 20))
        indices == OpenAIIndices(answer, Len(capped))
        InRange(i) == i + 1 \in 1..Len(capped)
        valid == SelectSeq(indices, InRange)
    IN  slice([i \in 1..Len(valid) |-> capped[valid[i] + 1]], topK)

\* computeRelevance (lines 205-244): the F1 of the shared words
computeRelevance(query, document) ==
    LET queryWords == Range(tokenize(query))
        documentWords == Range(tokenize(document))
        matchCount == Cardinality(documentWords \cap queryWords)
    IN  IF ~NonBlank(query) \/ ~NonBlank(document) THEN 0
        ELSE IF queryWords = {} THEN 0
        ELSE IF matchCount = 0 THEN 0
        ELSE (2 * matchCount * One)
                \div (Cardinality(queryWords) + Max(Cardinality(documentWords), 1))

\* the local scoring of rerank (lines 63-83)
rerankLocal(query, results, topK) ==
    LET scoredResults == sortByScore([i \in 1..Len(results) |->
                            [results[i] EXCEPT !.score = computeRelevance(query, results[i].text)]])
        topScore == IF scoredResults = << >> THEN 0 ELSE scoredResults[1].score
        relativeThreshold == IF topScore > 200000 THEN topScore \div 2
                             ELSE MIN_RELEVANCE_THRESHOLD
        finalThreshold == Max(MIN_RELEVANCE_THRESHOLD, relativeThreshold)
        Relevant(r) == r.score >= finalThreshold
    IN  slice(SelectSeq(scoredResults, Relevant), topK)

\* CrossEncoderReranker.rerank (lines 37-84)
rerank(query, results, topK, reranker) ==
    LET byCohere == IF reranker.cohere \in {"absent", "throws"} \/ results = << >>
                    THEN << >>
                    ELSE rerankWithCohere(results, topK, reranker.cohere)
        byOpenAI == IF reranker.openai \in {"absent", "throws", "unparseable"}
                       \/ results = << >>
                    THEN << >>
                    ELSE rerankWithOpenAI(results, topK, reranker.openai)
    IN  IF Len(byCohere) > 0 THEN byCohere
        ELSE IF Len(byOpenAI) > 0 THEN byOpenAI
        ELSE rerankLocal(query, results, topK)

\* what one call of rerank writes to the log (lines 47-49, 57-59, 183-185): a
\* tier that threw, an OpenAI answer that did not parse.  A tier without a
\* key, or one that answers with no usable item, writes nothing.
rerankLogged(results, reranker) ==
    LET byCohere == IF reranker.cohere \in {"absent", "throws"} \/ results = << >>
                    THEN << >>
                    ELSE rerankWithCohere(results, Len(results), reranker.cohere)
    IN  (IF reranker.cohere = "throws" /\ results # << >>
         THEN {"Cohere rerank failed, falling back"} ELSE {})
        \cup (IF Len(byCohere) > 0 \/ results = << >> THEN {}
              ELSE IF reranker.openai = "throws"
                   THEN {"OpenAI rerank failed, falling back"}
              ELSE IF reranker.openai = "unparseable"
                   THEN {"OpenAI rerank parse failed"}
              ELSE {})

\* tfCosineSimilarity (lines 383-425), to a thousandth
tfCosineSimilarity(text1, text2) ==
    LET words1 == tokenize(text1)
        words2 == tokenize(text2)
        vocab == Range(words1) \cup Range(words2)
        Sum[terms \in SUBSET vocab] ==
            IF terms = {} THEN [dot |-> 0, norm1 |-> 0, norm2 |-> 0]
            ELSE LET term == CHOOSE t \in terms : TRUE
                     rest == Sum[terms \ {term}]
                     freq1 == termFrequency(words1, term)
                     freq2 == termFrequency(words2, term)
                 IN  [dot |-> rest.dot + freq1 * freq2,
                      norm1 |-> rest.norm1 + freq1 * freq1,
                      norm2 |-> rest.norm2 + freq2 * freq2]
        total == Sum[vocab]
        denominator == (Sqrt(total.norm1 * One) * Sqrt(total.norm2 * One)) \div 1000
    IN  IF Len(words1) = 0 \/ Len(words2) = 0 THEN 0
        ELSE IF denominator = 0 THEN 0
        ELSE Max(0, Min(One, ((total.dot * One) \div denominator) * 1000))

\* dotProduct of the reranker (lines 358-371)
dotProduct(vecA, vecB) ==
    IF Len(vecA) # Len(vecB) THEN 0
    ELSE Max(-One, Min(One, SumProducts(vecA, vecB, 1)))

\* computeMaxSimilarity deciding by the texts alone
computeMaxSimilarityOfTexts(doc, selected) ==
    LET all == {tfCosineSimilarity(doc.text, selected[i].text) : i \in 1..Len(selected)}
    IN  IF selected = << >> THEN 0 ELSE CHOOSE m \in all : \A x \in all : x <= m

\* computeMaxSimilarity (lines 338-352)
computeMaxSimilarity(doc, selected) ==
    LET Similarity(sel) ==
            IF Len(doc.embedding) > 0 /\ Len(sel.embedding) > 0
            THEN dotProduct(doc.embedding, sel.embedding)
            ELSE tfCosineSimilarity(doc.text, sel.text)
        all == {Similarity(selected[i]) : i \in 1..Len(selected)}
    IN  IF selected = << >> THEN 0 ELSE CHOOSE m \in all : \A x \in all : x <= m

\* the MMR score of a candidate, times ten; lambda is in tenths
mmrScore(doc, selected, lambda) ==
    lambda * doc.score - (10 - lambda) * computeMaxSimilarity(doc, selected)

RECURSIVE MMRLoop(_, _, _, _)
MMRLoop(selected, remaining, lambda, topK) ==
    IF ~(Len(selected) < topK /\ Len(remaining) > 0) THEN selected
    ELSE LET bestIndex == CHOOSE i \in 1..Len(remaining) :
                 /\ \A j \in 1..Len(remaining) :
                        mmrScore(remaining[j], selected, lambda)
                            <= mmrScore(remaining[i], selected, lambda)
                 /\ \A j \in 1..(i - 1) :
                        mmrScore(remaining[j], selected, lambda)
                            < mmrScore(remaining[i], selected, lambda)
         IN  MMRLoop(Append(selected, remaining[bestIndex]),
                     SubSeq(remaining, 1, bestIndex - 1)
                        \o SubSeq(remaining, bestIndex + 1, Len(remaining)),
                     lambda, topK)

\* rerankWithMMR (lines 290-330)
rerankWithMMR(results, lambda, topK) ==
    IF results = << >> THEN << >>
    ELSE MMRLoop(<<Head(results)>>, Tail(results), lambda, topK)

----------------------------------------------------------------------------
(* RAGService.search *)

\* the alpha RAGService.search passes to the hybrid strategy: 0.7
hybridAlpha == 700000
\* the default of options.diversityLambda, in tenths: 0.7
diversityLambda == 7

\* RAGService.search (lines 276-344) with what it leaves behind: the list it
\* returns, the candidates of its retrieval stage, and the log entries written
ragSearchRun(rows, db, reranker, query, limit, therapistId, useHybrid, useReranking, diversityMode, lambda, minSimilarity) ==
    LET filter == Filter(therapistId, Null, {})
        retrieved == IF useHybrid
                     THEN hybridSearch(rows, db, query, limit * 2, hybridAlpha, filter,
                                       minSimilarity)
                     ELSE search(rows, db, embedText("", query), limit * 2, filter,
                                 minSimilarity)
        reranked == IF useReranking THEN rerank(query, retrieved, limit * 2, reranker)
                    ELSE retrieved
    IN  [retrieved |-> retrieved,
         results |-> IF Len(retrieved) = 0 THEN << >>
                     ELSE IF diversityMode THEN rerankWithMMR(reranked, lambda, limit)
                     ELSE slice(reranked, limit),
         logged |-> IF Len(retrieved) = 0 THEN {}
                    ELSE (IF useReranking
                          THEN {"Applying API reranking (Cohere/OpenAI)"}
                               \cup rerankLogged(retrieved, reranker)
                          ELSE {})
                         \cup (IF diversityMode THEN {"Applying MMR diversity filtering"}
                               ELSE {})]

\* the list RAGService.search returns
ragSearch(rows, db, reranker, query, limit, therapistId, useHybrid, useReranking, diversityMode, lambda, minSimilarity) ==
    ragSearchRun(rows, db, reranker, query, limit, therapistId, useHybrid, useReranking,
                 diversityMode, lambda, minSimilarity).results

----------------------------------------------------------------------------
(* Outcomes of indexDocument and the handlers around it *)

NoSearch == [op |-> "none"]

NoCall ==
    [by |-> "none", text |-> TextEmpty, sessionId |-> NoSessionId,
     sessionEntries |-> << >>, error |-> "none", calls |-> << >>,
     chunksCreated |-> 0, vectorsStored |-> 0, saved |-> 0, repeat |-> FALSE,
     logged |-> {}, embedded |-> NotEmbedded, thrown |-> {}]

NoBatch ==
    [text |-> TextEmpty, sessionEntries |-> << >>, documents |-> << >>, contexts |-> << >>]

\* indexDocument's catch (lines 146-160): the record it logs before it rethrows
indexDocumentCatch(sessionId, error) ==
    [logger |-> "RAGService", message |-> "Failed to index document",
     sessionId |-> sessionId, error |-> error]

\* what indexDocument's catch throws (lines 158-160): a new Error whose message
\* names the session and carries the message of the cause
indexDocumentThrow(sessionId, error) ==
    [message |-> "Document indexing failed for session", sessionId |-> sessionId,
     cause |-> error]

\* a faulty variant: the catch logs and throws the error on
updateSessionEmbeddingCatchRethrow(sessionId, error) ==
    [logged |-> {[logger |-> "SessionsService", message |-> "Background indexing failed",
                  sessionId |-> sessionId, error |-> error]},
     thrown |-> {error}]

\* updateSessionEmbedding's catch (lines 95-103): the record it logs, and what
\* it throws on
updateSessionEmbeddingCatch(sessionId, error) ==
    [logged |-> {[logger |-> "SessionsService", message |-> "Background indexing failed",
                  sessionId |-> sessionId, error |-> error]},
     thrown |-> {}]

\* an indexDocument call ends with `error`: the caller of an "api" call gets
\* the error, the "background" caller is updateSessionEmbedding
Failed(by, text, metadata, error, calls, chunks, saved, embedded) ==
    LET handled == updateSessionEmbeddingCatch(metadata.sessionId, error)
    IN  /\ lastCall' = [by |-> by, text |-> text, sessionId |-> metadata.sessionId,
                        sessionEntries |-> metadata.sessionEntries, error |-> error,
                        calls |-> calls, chunksCreated |-> chunks, vectorsStored |-> 0,
                        saved |-> saved, repeat |-> FALSE,
                        logged |-> {indexDocumentCatch(metadata.sessionId, error)}
                            \cup (IF by = "background" THEN handled.logged ELSE {}),
                        embedded |-> embedded,
                        thrown |-> {indexDocumentThrow(metadata.sessionId, error)}]
        /\ unhandled' = unhandled \cup (IF by = "background" THEN handled.thrown ELSE {})

\* indexDocument(text, metadata) from its entry to the call of upsertBatch
StartIndex(by, text, metadata) ==
    \E contexts \in ContextOutcomes(Len(chunkText(text))), outcome \in EmbedOutcomes :
        LET p == prepareIndex(text, metadata, contexts, outcome)
        IN  IF p.error # "none"
            THEN /\ Failed(by, text, metadata, p.error, p.calls, p.chunks, 0, p.embedded)
                 /\ UNCHANGED <<inflight, store, lastIndexed, newestIndexed>>
            ELSE /\ Len(inflight) < MaxInflight
                 /\ inflight' = Append(inflight,
                        [by |-> by, text |-> text, metadata |-> metadata,
                         calls |-> Append(p.calls, "vectorStore"),
                         documents |-> p.documents, saved |-> 0, stale |-> FALSE,
                         chunks |-> p.chunks, embedded |-> p.embedded,
                         contexts |-> contexts])
                 /\ UNCHANGED <<store, lastCall, lastIndexed, newestIndexed, unhandled>>

RemoveAt(seq, r) == [i \in 1..(Len(seq) - 1) |-> IF i < r THEN seq[i] ELSE seq[i + 1]]

----------------------------------------------------------------------------
(* Actions *)

InitWith(contextual) ==
    /\ contextualRetrievalEnabled \in contextual
    /\ sessions = {}
    /\ entries = [s \in SessionIds |-> << >>]
    /\ responses = {}
    /\ pendingIndex = [s \in SessionIds |-> 0]
    /\ inflight = << >>
    /\ store = << >>
    /\ lastCall = NoCall
    /\ lastIndexed = [s \in SessionIds |-> NoBatch]
    /\ newestIndexed = [s \in SessionIds |-> << >>]
    /\ unhandled = {}
    /\ transcript = [s \in SessionIds |-> TextEmpty]
    /\ lastSearch = NoSearch
    /\ embedCall = NoEmbedCall

\* SessionsService.create
CreateSession(s) ==
    /\ s \notin sessions
    /\ sessions' = sessions \cup {s}
    /\ UNCHANGED <<embedCall, transcript, lastSearch, contextualRetrievalEnabled, entries, responses, pendingIndex, inflight,
                   store, lastCall, lastIndexed, newestIndexed, unhandled>>

\* SessionsService.addEntry: the entry is saved, updateSessionEmbedding is
\* started and not awaited, the saved entry is returned
AddEntry(s, dto) ==
    /\ s \in sessions
    /\ Len(entries[s]) < MaxEntries
    /\ entries' = [entries EXCEPT ![s] = Append(@, dto)]
    /\ pendingIndex' = [pendingIndex EXCEPT ![s] = @ + 1]
    /\ responses' = responses \cup
            {[sessionId |-> s, position |-> Len(entries[s]) + 1, savedEntry |-> dto]}
    /\ UNCHANGED <<embedCall, transcript, lastSearch, contextualRetrievalEnabled, sessions, inflight, store, lastCall,
                   lastIndexed, newestIndexed, unhandled>>

\* SessionsService.updateSessionEmbedding, run in the background
UpdateSessionEmbedding(s) ==
    /\ pendingIndex[s] > 0
    /\ pendingIndex' = [pendingIndex EXCEPT ![s] = @ - 1]
    /\ IF Len(entries[s]) = 0
       THEN UNCHANGED <<inflight, store, lastCall, lastIndexed, newestIndexed, unhandled>>
       ELSE StartIndex("background", TextEmpty, Metadata(s, entries[s]))
    /\ UNCHANGED <<embedCall, transcript, lastSearch, contextualRetrievalEnabled, sessions, entries, responses>>

\* RAGService.indexDocument called by any other caller
IndexDocument(text, sessionId, sessionEntries) ==
    /\ StartIndex("api", text, Metadata(sessionId, sessionEntries))
    /\ UNCHANGED <<embedCall, transcript, lastSearch, contextualRetrievalEnabled, sessions, entries, responses, pendingIndex>>

\* upsertBatch, inside the transaction: the next document is saved
UpsertSave(r) ==
    /\ r \in 1..Len(inflight)
    /\ inflight[r].saved < Len(inflight[r].documents)
    /\ inflight' = [inflight EXCEPT ![r].saved = @ + 1]
    /\ store' = visibleBeforeCommit(store, inflight[r].documents, inflight[r].saved + 1)
    /\ UNCHANGED <<embedCall, transcript, lastSearch, contextualRetrievalEnabled, sessions, entries, responses, pendingIndex,
                   lastCall, lastIndexed, newestIndexed, unhandled>>

\* upsertBatch, inside the transaction: the save of the next document fails,
\* the transaction is rolled back and indexDocument throws
UpsertFail(r) ==
    /\ r \in 1..Len(inflight)
    /\ inflight[r].saved < Len(inflight[r].documents)
    /\ inflight' = RemoveAt(inflight, r)
    /\ store' = visibleBeforeCommit(store, inflight[r].documents, inflight[r].saved)
    /\ Failed(inflight[r].by, inflight[r].text, inflight[r].metadata, ErrStorage,
              inflight[r].calls, inflight[r].chunks, inflight[r].saved,
              inflight[r].embedded)
    /\ UNCHANGED <<embedCall, transcript, lastSearch, contextualRetrievalEnabled, sessions, entries, responses, pendingIndex,
                   lastIndexed, newestIndexed>>

\* the transaction commits and indexDocument returns its counts
UpsertCommit(r) ==
    /\ r \in 1..Len(inflight)
    /\ inflight[r].saved = Len(inflight[r].documents)
    /\ LET run == inflight[r]
           sid == run.metadata.sessionId
       IN  /\ store' = commit(store, run.documents)
           /\ inflight' = RemoveAt([i \in 1..Len(inflight) |->
                               IF i < r /\ inflight[i].metadata.sessionId = sid
                               THEN [inflight[i] EXCEPT !.stale = TRUE]
                               ELSE inflight[i]], r)
           /\ lastCall' = [by |-> run.by, text |-> run.text, sessionId |-> sid,
                           sessionEntries |-> run.metadata.sessionEntries,
                           error |-> "none", calls |-> run.calls,
                           chunksCreated |-> run.chunks,
                           vectorsStored |-> Len(run.documents),
                           saved |-> Len(run.documents),
                           repeat |-> (lastIndexed[sid].text = run.text
                                       /\ lastIndexed[sid].documents # << >>),
                           logged |-> {}, embedded |-> run.embedded, thrown |-> {}]
           /\ lastIndexed' = [lastIndexed EXCEPT ![sid] =
                                 [text |-> run.text,
                                  sessionEntries |-> run.metadata.sessionEntries,
                                  documents |-> run.documents,
                                  contexts |-> run.contexts]]
           /\ newestIndexed' = IF run.stale THEN newestIndexed
                               ELSE [newestIndexed EXCEPT ![sid] = run.documents]
    /\ UNCHANGED <<embedCall, transcript, lastSearch, contextualRetrievalEnabled, sessions, entries, responses, pendingIndex,
                   unhandled>>

----------------------------------------------------------------------------
(* Spec: callers of indexDocument running concurrently against the store *)

\* the sessions whose documents are indexed
IndexedSessions == {"s1"}

Init == InitWith({FALSE})

Next ==
    \/ \E text \in Texts, sessionId \in IndexedSessions \cup {NoSessionId} :
         \E sessionEntries \in (IF hasText(text) THEN {<< >>} ELSE EntryLists) :
            IndexDocument(text, sessionId, sessionEntries)
    \/ \E r \in 1..MaxInflight : UpsertSave(r)
    \/ \E r \in 1..MaxInflight : UpsertFail(r)
    \/ \E r \in 1..MaxInflight : UpsertCommit(r)

Spec == Init /\ [][Next]_vars

----------------------------------------------------------------------------
(* SpecSessions: the sessions service and its background indexing.  A
   background call never reaches upsertBatch, so the transaction's steps are
   not part of this next-state relation. *)

InitSessions == InitWith(BOOLEAN)

NextSessions ==
    \/ \E s \in SessionIds : CreateSession(s)
    \/ \E s \in SessionIds, dto \in EntryDtos : AddEntry(s, dto)
    \/ \E s \in SessionIds : UpdateSessionEmbedding(s)

SpecSessions == InitSessions /\ [][NextSessions]_vars

----------------------------------------------------------------------------
(* SpecSearch: searches over a store filled by indexDocument.  A search
   changes nothing it reads, so each behaviour makes one search. *)

\* the texts a session of the search scenarios may have been indexed with
SearchTexts == {TextShort, TextLong, TextNote}

\* the documents indexDocument stores for session s with transcript text
DocumentsOf(s, text) ==
    LET chunks == process(text, Metadata(s, << >>))
        none == [i \in 1..Len(chunks) |-> ""]
    IN  vectorDocuments(chunks, embedBatch(none, chunks, "ok"), none, Metadata(s, << >>))

\* the store after the sessions were indexed one after the other
RECURSIVE IndexedStore(_, _)
IndexedStore(texts, n) ==
    IF n = 0 THEN << >>
    ELSE commit(IndexedStore(texts, n - 1),
                DocumentsOf(SessionOrder[n], texts[SessionOrder[n]]))

InitSearch ==
    /\ contextualRetrievalEnabled = FALSE
    /\ sessions = SearchSessionIds
    /\ entries = [s \in SearchSessionIds |-> << >>]
    /\ responses = {}
    /\ pendingIndex = [s \in SearchSessionIds |-> 0]
    /\ inflight = << >>
    /\ \E texts \in [Transcribed -> SearchTexts] :
         transcript = [s \in SearchSessionIds |->
                          IF s \in Transcribed THEN texts[s] ELSE TextEmpty]
    /\ store = IndexedStore(transcript, Len(SessionOrder))
    /\ lastCall = NoCall
    /\ lastIndexed = [s \in SearchSessionIds |-> NoBatch]
    /\ newestIndexed = [s \in SearchSessionIds |-> << >>]
    /\ unhandled = {}
    /\ lastSearch = NoSearch
    /\ embedCall = NoEmbedCall

\* the queries: one word each
Queries == {<<Unit("none", 1, "breathing")>>, <<Unit("none", 1, "better")>>}
Limits == 1..MaxLimit
MinSimilarities == {300000, 700000}
TherapistIds == {"tA", "tB"}

\* PgVectorAdapter.search called with a query vector
AdapterSearch(db, query, limit, filter, minSimilarity) ==
    /\ lastSearch' = [op |-> "adapter", db |-> db, query |-> query, limit |-> limit,
                      filter |-> filter, minSimilarity |-> minSimilarity,
                      results |-> search(store, db, embedText("", query), limit, filter,
                                         minSimilarity)]
    /\ UNCHANGED <<contextualRetrievalEnabled, sessions, entries, responses, pendingIndex,
                   inflight, store, lastCall, lastIndexed, newestIndexed, unhandled,
                   transcript, embedCall>>

\* RAGService.search called with a query and its options
RagSearch(db, reranker, query, limit, therapistId, useHybrid, useReranking, diversityMode, minSimilarity) ==
    /\ \E run \in {ragSearchRun(store, db, reranker, query, limit, therapistId,
                                  useHybrid, useReranking, diversityMode,
                                  diversityLambda, minSimilarity)} :
           lastSearch' = [op |-> "rag", db |-> db, reranker |-> reranker,
                          query |-> query, limit |-> limit,
                          filter |-> Filter(therapistId, Null, {}),
                          useHybrid |-> useHybrid, useReranking |-> useReranking,
                          diversityMode |-> diversityMode,
                          minSimilarity |-> minSimilarity,
                          retrieved |-> run.retrieved, results |-> run.results,
                          logged |-> run.logged]
    /\ UNCHANGED <<contextualRetrievalEnabled, sessions, entries, responses, pendingIndex,
                   inflight, store, lastCall, lastIndexed, newestIndexed, unhandled,
                   transcript, embedCall>>

\* the session filters of a search: none, one session, a list of sessions
SessionFilters == {[sessionId |-> Null, sessionIds |-> {}],
                   [sessionId |-> "s1", sessionIds |-> {}],
                   [sessionId |-> "s2", sessionIds |-> {"s1", "s3"}]}

NextSearch ==
    \/ /\ lastSearch = NoSearch
       /\ \E db \in Databases, query \in Queries, limit \in Limits,
             minSimilarity \in MinSimilarities,
             therapistId \in TherapistIds \cup {Null}, by \in SessionFilters :
               AdapterSearch(db, query, limit,
                             Filter(therapistId, by.sessionId, by.sessionIds),
                             minSimilarity)
    \/ /\ lastSearch = NoSearch
       /\ \E db \in Databases, query \in Queries, limit \in Limits,
             minSimilarity \in MinSimilarities, therapistId \in TherapistIds \cup {Null},
             useHybrid \in BOOLEAN, useReranking \in BOOLEAN, diversityMode \in BOOLEAN :
            \E reranker \in (IF useReranking THEN Rerankers ELSE {NoReranker}) :
               RagSearch(db, reranker, query, limit, therapistId, useHybrid,
                         useReranking, diversityMode, minSimilarity)

SpecSearch == InitSearch /\ [][NextSearch]_vars

----------------------------------------------------------------------------
(* SpecStore: clients of the vector store calling upsert and upsertBatch
   with documents of their own *)

\* the documents a client passes: of a known chunk id, with a vector of the
\* provider's length, one component shorter, or one longer
StoreDocuments ==
    {[id |-> generateDocumentId(sid, k),
      embedding |-> Resize(WordVec(w), n),
      text |-> <<Unit("none", 100, w)>>,
      metadata |-> [sessionId |-> sid, therapistId |-> therapistIdOf(sid),
                    clientId |-> clientIdOf(sid), chunkIndex |-> k,
                    totalChunks |-> 2, contextSummary |-> Null,
                    contextualized |-> FALSE]] :
        sid \in SessionIds, k \in 0..1, w \in {"breathing", "sleep"},
        n \in (getDimensions - 1)..(getDimensions + 1)}

\* IVectorStore.upsert called with a document
Upsert(document) ==
    /\ store' = upsert(store, document)
    /\ UNCHANGED <<contextualRetrievalEnabled, sessions, entries, responses, pendingIndex,
                   inflight, lastCall, lastIndexed, newestIndexed, unhandled,
                   transcript, lastSearch, embedCall>>

\* IVectorStore.upsertBatch called with documents, the transaction committing
UpsertBatch(documents) ==
    /\ store' = commit(store, documents)
    /\ UNCHANGED <<contextualRetrievalEnabled, sessions, entries, responses, pendingIndex,
                   inflight, lastCall, lastIndexed, newestIndexed, unhandled,
                   transcript, lastSearch, embedCall>>

InitStore == InitWith({FALSE})

NextStore ==
    \/ \E document \in StoreDocuments : Upsert(document)
    \/ \E d1, d2 \in StoreDocuments :
          d1.id # d2.id /\ d1.metadata.sessionId = d2.metadata.sessionId
              /\ d1.metadata.chunkIndex < d2.metadata.chunkIndex
              /\ UpsertBatch(<<d1, d2>>)

SpecStore == InitStore /\ [][NextStore]_vars

----------------------------------------------------------------------------
(* SpecEmbed: one call of OpenAIEmbeddingProvider.embedBatch and the attempts
   of its sub-batches *)

\* the texts of a call: n texts, the first of them short, long or blank
TextLists ==
    {[i \in 1..n |-> EmbedText(i, IF i = 1 THEN first ELSE "short")] :
        n \in 0..MaxTexts, first \in {"short", "long", "blank"}}

\* embedBatch (lines 35-42) up to the first attempt
EmbedBatch(texts) ==
    /\ embedCall.phase = "idle"
    /\ embedCall' =
          IF Len(texts) = 0
          THEN [NoEmbedCall EXCEPT !.phase = "threw", !.error = ErrTextsEmpty]
          ELSE IF \E i \in 1..Len(texts) : isBlankText(texts[i])
          THEN [NoEmbedCall EXCEPT !.phase = "threw", !.texts = texts,
                                   !.error = ErrTextBlank]
          ELSE [NoEmbedCall EXCEPT
                   !.phase = "running", !.texts = texts, !.batch = 1,
                   !.batches = chunkArray([i \in 1..Len(texts) |-> preprocess(texts[i])],
                                          maxBatchSize)]
    /\ UNCHANGED <<contextualRetrievalEnabled, sessions, entries, responses, pendingIndex,
                   inflight, store, lastCall, lastIndexed, newestIndexed, unhandled,
                   transcript, lastSearch>>

\* the API answers the attempt the call is waiting for
EmbedAttempt(answer) ==
    /\ embedCall.phase = "running"
    /\ embedCall' = embedWithRetry(embedCall, answer)
    /\ UNCHANGED <<contextualRetrievalEnabled, sessions, entries, responses, pendingIndex,
                   inflight, store, lastCall, lastIndexed, newestIndexed, unhandled,
                   transcript, lastSearch>>

InitEmbed == InitWith({FALSE})

NextEmbed ==
    \/ \E texts \in TextLists : EmbedBatch(texts)
    \/ \E answer \in ApiAnswers : EmbedAttempt(answer)

SpecEmbed == InitEmbed /\ [][NextEmbed]_vars

----------------------------------------------------------------------------
(* SpecMMR: callers of CrossEncoderReranker.rerankWithMMR with candidate
   lists of their own.  Each behaviour makes one call. *)

\* a candidate: its place in the list names it; it has a relevance score and
\* a text about a word, and its embedding unless `embedded` is false
Candidate(k, score, word, embedded) ==
    [id |-> <<"candidate", k>>, score |-> score, text |-> <<Unit("none", 10, word)>>,
     embedding |-> IF embedded THEN WordVec(word) ELSE << >>,
     metadata |-> [sessionId |-> "s1", therapistId |-> therapistIdOf("s1"),
                   clientId |-> clientIdOf("s1")]]

CandidateKinds ==
    {[score |-> sc, word |-> k.word, embedded |-> k.embedded] :
        sc \in {300000, 500000, 900000},
        k \in {[word |-> "breathing", embedded |-> TRUE],
               [word |-> "better", embedded |-> TRUE],
               [word |-> "breathing", embedded |-> FALSE]}}

\* the candidate lists: in any order of score
CandidateLists ==
    UNION {{[k \in 1..n |-> Candidate(k, kinds[k].score, kinds[k].word, kinds[k].embedded)] :
               kinds \in [1..n -> CandidateKinds]} : n \in 0..MaxCandidates}

\* lambda in tenths
Lambdas == {0, 5, 10}

\* CrossEncoderReranker.rerankWithMMR called with a candidate list
RerankWithMMR(results, lambda, topK) ==
    /\ lastSearch' = [op |-> "mmr", candidates |-> results, lambda |-> lambda,
                      topK |-> topK, results |-> rerankWithMMR(results, lambda, topK)]
    /\ UNCHANGED <<contextualRetrievalEnabled, sessions, entries, responses, pendingIndex,
                   inflight, store, lastCall, lastIndexed, newestIndexed, unhandled,
                   transcript, embedCall>>

InitMMR == InitWith({FALSE})

NextMMR ==
    /\ lastSearch = NoSearch
    /\ \E results \in CandidateLists, lambda \in Lambdas, topK \in 0..MaxLimit :
          RerankWithMMR(results, lambda, topK)

SpecMMR == InitMMR /\ [][NextMMR]_vars

----------------------------------------------------------------------------
(* SpecRerank: callers of CrossEncoderReranker.rerank with candidate lists of
   their own, and the external services answering in each of their ways.
   Each behaviour makes one call. *)

\* CrossEncoderReranker.rerank called with a query and a candidate list
Rerank(query, results, topK, reranker) ==
    /\ lastSearch' = [op |-> "rerank", query |-> query, candidates |-> results,
                      topK |-> topK, reranker |-> reranker,
                      results |-> rerank(query, results, topK, reranker)]
    /\ UNCHANGED <<contextualRetrievalEnabled, sessions, entries, responses, pendingIndex,
                   inflight, store, lastCall, lastIndexed, newestIndexed, unhandled,
                   transcript, embedCall>>

InitRerank == InitWith({FALSE})

NextRerank ==
    /\ lastSearch = NoSearch
    /\ \E query \in Queries, results \in CandidateLists, topK \in 0..MaxLimit,
          reranker \in Rerankers :
            Rerank(query, results, topK, reranker)

SpecRerank == InitRerank /\ [][NextRerank]_vars

----------------------------------------------------------------------------
(* SpecRRF: HybridSearchStrategy.reciprocalRankFusion applied to two rankings
   with the alpha of RAGService.search.  Each behaviour fuses once. *)

\* the ids that are ranked: of sessions and of chunks
RankedIds ==
    {<<"s1">>, <<"s2">>, generateDocumentId("s1", 0), generateDocumentId("s1", 1)}

\* a ranking: ids in some order, none twice, scored in non-increasing order
Rankings ==
    UNION {{[rank \in 1..n |->
                [id |-> ids[rank], score |-> 900000 \div rank,
                 text |-> <<Unit("none", 10, "breathing")>>, embedding |-> << >>,
                 metadata |-> [sessionId |-> ids[rank][1],
                               therapistId |-> therapistIdOf(ids[rank][1]),
                               clientId |-> clientIdOf(ids[rank][1])]]] :
               ids \in {f \in [1..n -> RankedIds] :
                           \A i, j \in 1..n : (i # j) => f[i] # f[j]}} :
           n \in 0..MaxRanked}

\* reciprocalRankFusion called as HybridSearchStrategy.search calls it
ReciprocalRankFusion(semanticResults, keywordResults, alpha) ==
    /\ lastSearch' = [op |-> "rrf", semanticResults |-> semanticResults,
                      keywordResults |-> keywordResults, alpha |-> alpha,
                      results |-> reciprocalRankFusion(semanticResults, keywordResults,
                                                       alpha)]
    /\ UNCHANGED <<contextualRetrievalEnabled, sessions, entries, responses, pendingIndex,
                   inflight, store, lastCall, lastIndexed, newestIndexed, unhandled,
                   transcript, embedCall>>

InitRRF == InitWith({FALSE})

NextRRF ==
    /\ lastSearch = NoSearch
    /\ \E semanticResults \in Rankings, keywordResults \in Rankings :
          ReciprocalRankFusion(semanticResults, keywordResults, hybridAlpha)

SpecRRF == InitRRF /\ [][NextRRF]_vars

----------------------------------------------------------------------------
(* SpecDelete: clients of the vector store that upsert documents and call
   delete and deleteByMetadata *)

\* the documents upserted: three chunk ids, each of any therapist and client
DeleteDocuments ==
    {[id |-> generateDocumentId(at.sid, at.k),
      embedding |-> WordVec("breathing"),
      text |-> <<Unit("none", 100, "breathing")>>,
      metadata |-> [sessionId |-> at.sid, therapistId |-> t, clientId |-> c,
                    chunkIndex |-> at.k, totalChunks |-> 2, contextSummary |-> Null,
                    contextualized |-> FALSE]] :
        at \in {[sid |-> "s1", k |-> 0], [sid |-> "s1", k |-> 1], [sid |-> "s2", k |-> 0]},
        t \in {"tA", "tB"}, c \in {"cA", "cB"}}

\* the ids delete is called with: the three above and one never stored
DeleteIds == {generateDocumentId("s1", 0), generateDocumentId("s1", 1),
              generateDocumentId("s2", 0), generateDocumentId("s2", 1)}

DeleteFilters ==
    {DeleteFilter(t, s, c) : t \in {Null, "tA", "tB"}, s \in {Null, "s1", "s2"},
                             c \in {Null, "cA", "cB"}}

\* the number of delete and deleteByMetadata calls made so far
deleteCalls == IF lastSearch.op = "none" THEN 0 ELSE lastSearch.call

\* IVectorStore.delete called with an id
Delete(id) ==
    /\ deleteCalls < MaxDeletes
    /\ \E run \in {delete(store, id)} :
          /\ store' = run.rows
          /\ lastSearch' = [op |-> "delete", id |-> id,
                            filter |-> DeleteFilter(Null, Null, Null),
                            affected |-> run.affected, thrown |-> run.thrown,
                            call |-> deleteCalls + 1]
    /\ UNCHANGED <<contextualRetrievalEnabled, sessions, entries, responses, pendingIndex,
                   inflight, lastCall, lastIndexed, newestIndexed, unhandled,
                   transcript, embedCall>>

\* IVectorStore.deleteByMetadata called with a filter
DeleteByMetadata(filter) ==
    /\ deleteCalls < MaxDeletes
    /\ \E run \in {deleteByMetadata(store, filter)} :
          /\ store' = run.rows
          /\ lastSearch' = [op |-> "deleteByMetadata", id |-> << >>, filter |-> filter,
                            affected |-> run.affected, thrown |-> run.thrown,
                            call |-> deleteCalls + 1]
    /\ UNCHANGED <<contextualRetrievalEnabled, sessions, entries, responses, pendingIndex,
                   inflight, lastCall, lastIndexed, newestIndexed, unhandled,
                   transcript, embedCall>>

InitDelete == InitWith({FALSE})

NextDelete ==
    \/ \E document \in DeleteDocuments : Upsert(document)
    \/ \E id \in DeleteIds : Delete(id)
    \/ \E filter \in DeleteFilters : DeleteByMetadata(filter)

SpecDelete == InitDelete /\ [][NextDelete]_vars

----------------------------------------------------------------------------
(* SpecContextual: indexDocument called with contextual retrieval enabled,
   one call after the other *)

\* the texts indexed: of one chunk and of several
ContextualTexts == {TextShort, TextLong}

InitContextual == InitWith({TRUE})

NextContextual ==
    \/ /\ inflight = << >>
       /\ \E text \in ContextualTexts, sessionId \in IndexedSessions :
             IndexDocument(text, sessionId, << >>)
    \/ \E r \in 1..MaxInflight : UpsertSave(r)
    \/ \E r \in 1..MaxInflight : UpsertFail(r)
    \/ \E r \in 1..MaxInflight : UpsertCommit(r)

SpecContextual == InitContextual /\ [][NextContextual]_vars

----------------------------------------------------------------------------
(* SpecInterleaved: indexDocument called for two sessions, one call at a
   time for each, the transactions of the two interleaving in any order *)

\* a call of indexDocument for the session has its transaction open
Open(sessionId) == \E r \in 1..Len(inflight) : inflight[r].metadata.sessionId = sessionId

InitInterleaved == InitWith({FALSE})

NextInterleaved ==
    \/ /\ ~Open("s1")
       /\ \E text \in ContextualTexts : IndexDocument(text, "s1", << >>)
    \/ /\ ~Open("s2")
       /\ \E text \in {TextShort, TextNote} : IndexDocument(text, "s2", << >>)
    \/ \E r \in 1..MaxInflight : UpsertSave(r)
    \/ \E r \in 1..MaxInflight : UpsertFail(r)
    \/ \E r \in 1..MaxInflight : UpsertCommit(r)

SpecInterleaved == InitInterleaved /\ [][NextInterleaved]_vars

----------------------------------------------------------------------------
(* SpecChunk: SemanticChunker.process applied to a text.  Each behaviour
   chunks one text. *)

\* the lines (dialogue) or sentences (plain text) a text is made of: blank, or
\* of 40, 300, 500 or 600 tokens, spoken by the therapist, the client, or
\* without a speaker label
ChunkUnits ==
    {BlankUnit} \cup {Unit(sp, tk, "breathing") :
                         sp \in {"therapist", "client", "none"}, tk \in {40, 300, 500, 600}}

ChunkTexts == UNION {[1..n -> ChunkUnits] : n \in 1..MaxLines}

\* SemanticChunker.process called with a text
Process(text) ==
    /\ lastSearch' = [op |-> "process", text |-> text,
                      chunks |-> process(text, Metadata("s1", << >>))]
    /\ UNCHANGED <<contextualRetrievalEnabled, sessions, entries, responses, pendingIndex,
                   inflight, store, lastCall, lastIndexed, newestIndexed, unhandled,
                   transcript, embedCall>>

InitChunk == InitWith({FALSE})

NextChunk ==
    /\ lastSearch = NoSearch
    /\ \E text \in ChunkTexts : Process(text)

SpecChunk == InitChunk /\ [][NextChunk]_vars

----------------------------------------------------------------------------
(* Properties of indexing, checked under Spec *)

\* the rows of session s, as <<id, text, embedding>>
StoredChunks(s) ==
    {<<store[i].id, store[i].text, store[i].embedding>> :
        i \in {j \in 1..Len(store) : store[j].sessionId = s}}

\* the step is the commit of a run for session s
CommitOf(s) ==
    /\ Len(inflight') < Len(inflight)
    /\ lastCall'.error = "none"
    /\ lastCall'.sessionId = s

\* C1: when indexDocument commits for a session the content that was indexed
\* last for it (deterministic embeddings, context enrichment off), the store
\* keeps the same rows in the same places: the same ids, and for each id the
\* same text and the same embedding; no row is added.
C1_ReindexSameContentIdempotent ==
    [][\A s \in SessionIds :
        (CommitOf(s) /\ lastCall'.repeat /\ ~contextualRetrievalEnabled) =>
            /\ Len(store') = Len(store)
            /\ \A i \in 1..Len(store) :
                /\ store'[i].id = store[i].id
                /\ store'[i].text = store[i].text
                /\ store'[i].embedding = store[i].embedding]_vars

\* a second run of the two-chunk text has committed and the session holds
\* exactly its two chunks
C1_Witness ==
    /\ lastCall.error = "none"
    /\ lastCall.repeat
    /\ lastCall.text = TextLong
    /\ Cardinality(StoredChunks(lastCall.sessionId)) = 2
    /\ Len(store) = 2

\* C2: when no run is in flight for a session, the rows stored for it are
\* exactly the documents of the run that committed last: ids chunk 0 .. n-1
\* for its chunk count n, and nothing of an earlier run.
C2_OnlyLatestRunStored ==
    \A s \in SessionIds :
        ((\A i \in 1..Len(inflight) : inflight[i].metadata.sessionId # s)
            /\ lastIndexed[s].documents # << >>) =>
            {store[i].id : i \in {j \in 1..Len(store) : store[j].sessionId = s}}
                = {<<s, "chunk", k>> : k \in 0..(Len(lastIndexed[s].documents) - 1)}

\* C7: once no run is in flight for a session, its rows all come from the run
\* that started last among those that committed: each of that run's documents
\* is stored as that run wrote it.
C7_NewerRunWins ==
    \A s \in SessionIds :
        ((\A i \in 1..Len(inflight) : inflight[i].metadata.sessionId # s)
            /\ newestIndexed[s] # << >>) =>
            \A k \in 1..Len(newestIndexed[s]) :
                <<newestIndexed[s][k].id, newestIndexed[s][k].text,
                  newestIndexed[s][k].embedding>> \in StoredChunks(s)

\* C8: the store changes only by the commit of a whole batch; a run whose save
\* fails leaves the store as it was and its indexDocument reports the failure
\* with nothing stored.
C8_BatchAllOrNothing ==
    [][/\ (store' # store) =>
            \E r \in 1..Len(inflight) :
                /\ inflight[r].saved = Len(inflight[r].documents)
                /\ store' = saveAll(store, inflight[r].documents)
                /\ lastCall'.error = "none"
       /\ (Len(inflight') < Len(inflight) /\ lastCall'.error # "none") =>
            /\ store' = store
            /\ lastCall'.error = ErrStorage
            /\ lastCall'.vectorsStored = 0
            /\ lastCall'.logged # {}]_vars

\* a run failed after its transaction had saved a document, and the store
\* holds nothing
C8_Witness ==
    /\ lastCall.error = ErrStorage
    /\ lastCall.saved >= 1
    /\ lastCall.chunksCreated = 2
    /\ store = << >>

\* the input the validation must reject: no unit of text with a token and no
\* session entry, or no session id
InvalidInput(text, sessionId, sessionEntries) ==
    \/ (\A i \in 1..Len(text) : text[i].tok = 0) /\ Len(sessionEntries) = 0
    \/ sessionId = NoSessionId

\* C9: a call with invalid input never reaches upsertBatch; it ends with a
\* validation error having invoked none of the chunker, the context generator,
\* the embedding provider and the vector store, and the store is unchanged.
C9_InvalidInputRejectedFirst ==
    [][/\ \A i \in 1..Len(inflight') :
            ~InvalidInput(inflight'[i].text, inflight'[i].metadata.sessionId,
                          inflight'[i].metadata.sessionEntries)
       /\ (lastCall' # lastCall
            /\ InvalidInput(lastCall'.text, lastCall'.sessionId, lastCall'.sessionEntries)) =>
            /\ lastCall'.error \in {ErrNoContent, ErrNoSessionId}
            /\ lastCall'.calls = << >>
            /\ lastCall'.vectorsStored = 0
            /\ store' = store
            /\ inflight' = inflight]_vars

\* a text call without a session id was rejected while the store held rows
C9_Witness ==
    /\ lastCall.error = ErrNoSessionId
    /\ lastCall.text = TextShort
    /\ lastCall.calls = << >>
    /\ store # << >>

\* C10: a call with blank text, session entries and a session id, whose
\* embedding and storage did not fail, succeeds with at least one chunk.
C10_SessionEntriesIndexed ==
    (/\ lastCall.by # "none"
     /\ \A i \in 1..Len(lastCall.text) : lastCall.text[i].tok = 0
     /\ Len(lastCall.sessionEntries) > 0
     /\ lastCall.sessionId # NoSessionId
     /\ lastCall.error \notin {ErrEmbedding, ErrCount, ErrStorage}) =>
        /\ lastCall.error = "none"
        /\ lastCall.chunksCreated >= 1

\* C11: a call whose provider returned a number of vectors other than the
\* number of chunks ends with the count-mismatch error in an error naming its
\* session, having made no upsert: the vector store was not called, the store
\* is unchanged, and nothing is stored.  A run that reaches upsertBatch has one
\* document per chunk of its text and got one vector per chunk: chunks are
\* never cut or padded to fit.
C11_CountMismatchRejected ==
    [][/\ \A i \in 1..Len(inflight') :
            /\ inflight'[i].embedded = inflight'[i].chunks
            /\ Len(inflight'[i].documents) = Len(chunkText(inflight'[i].text))
            /\ inflight'[i].chunks = Len(chunkText(inflight'[i].text))
       /\ (lastCall' # lastCall /\ lastCall'.embedded # NotEmbedded
            /\ lastCall'.embedded # Len(chunkText(lastCall'.text))) =>
            /\ lastCall'.error = ErrCount
            /\ lastCall'.thrown =
                  {indexDocumentThrow(lastCall'.sessionId, ErrCount)}
            /\ lastCall'.sessionId # NoSessionId
            /\ \A k \in 1..Len(lastCall'.calls) : lastCall'.calls[k] # "vectorStore"
            /\ lastCall'.vectorsStored = 0
            /\ lastCall'.saved = 0
            /\ store' = store
            /\ inflight' = inflight]_vars

\* the provider answered three vectors for the two chunks of the long text
\* while the store held rows, and the call failed
C11_Witness ==
    /\ lastCall.text = TextLong
    /\ lastCall.chunksCreated = 2
    /\ lastCall.embedded = 3
    /\ lastCall.error = ErrCount
    /\ store # << >>

----------------------------------------------------------------------------
(* Properties of the vector store, checked under SpecStore *)

\* C12: every row of the store has an embedding of getDimensions() components
\* (an upsert of a vector of another length having been rejected).
C12_StoredDimensionsMatch ==
    \A i \in 1..Len(store) : Len(store[i].embedding) = getDimensions

----------------------------------------------------------------------------
(* Properties of the embedding provider, checked under SpecEmbed *)

\* the vectors embedBatch may return for a text: the model's vector for the
\* text as preprocessed, as answered or as normalized from an answer that was
\* not
VectorsOf(text) ==
    LET v == apiVector(preprocess(text))
    IN  {v, normalized([j \in 1..Len(v) |-> 2 * v[j]])}

\* the rows indexDocument stores for a text pair chunk i with the vector of the
\* i-th text it sent to embedBatch: the chunk's text, after its context
\* summary when it has one
IndexedAligned ==
    \A text \in {TextShort, TextLong, TextNote} :
        LET chunks == process(text, Metadata("s1", << >>))
        IN  \A contexts \in [1..Len(chunks) -> {"", "summary"}] :
                LET rows == commit(<< >>,
                                vectorDocuments(chunks, embedBatch(contexts, chunks, "ok"),
                                                contexts, Metadata("s1", << >>)))
                IN  /\ Len(rows) = Len(chunks)
                    /\ \A i \in 1..Len(chunks) :
                          /\ rows[i].chunkIndex = i - 1
                          /\ rows[i].text = chunks[i].text
                          /\ rows[i].embedding = embedText(contexts[i], chunks[i].text)

Transient(answer) ==
    /\ answer.kind = "error"
    /\ \/ answer.status = 429
       \/ answer.status >= 500
       \/ answer.code = "ETIMEDOUT"

\* C14: for one sub-batch, an attempt that fails with a transient error is
\* retried while fewer than 3 retries were made, after a delay of 1 s, 2 s and
\* 4 s; the fourth transient failure ends the call with the embedding error;
\* any other error, an invalid response included, ends it at once without a
\* delay; a valid response is taken whatever failed before, with no error.
C14_RetryTransientWithBackoff ==
    [][(embedCall.phase = "running" /\ embedCall' # embedCall) =>
          LET answer == embedCall'.answer
              retry == embedCall.retry
              delays == <<1000, 2000, 4000>>
          IN  /\ retry <= 3
              /\ embedCall.slept = SubSeq(delays, 1, retry)
              /\ (Transient(answer) /\ retry < 3) =>
                    /\ embedCall'.phase = "running"
                    /\ embedCall'.batch = embedCall.batch
                    /\ embedCall'.retry = retry + 1
                    /\ embedCall'.slept = SubSeq(delays, 1, retry + 1)
                    /\ embedCall'.results = embedCall.results
                    /\ embedCall'.error = "none"
              /\ (Transient(answer) /\ retry = 3) =>
                    /\ embedCall'.phase = "threw"
                    /\ embedCall'.error = ErrEmbedding
                    /\ embedCall'.slept = embedCall.slept
              /\ ((answer.kind = "error" /\ ~Transient(answer))
                    \/ (answer.kind = "response" /\ answer.data = "badDims")) =>
                    /\ embedCall'.phase = "threw"
                    /\ embedCall'.error = ErrEmbedding
                    /\ embedCall'.retry = retry
                    /\ embedCall'.slept = embedCall.slept
              /\ (answer.kind = "response" /\ answer.data # "badDims") =>
                    /\ embedCall'.phase \in {"running", "returned"}
                    /\ embedCall'.error = "none"
                    /\ Len(embedCall'.results) >= Len(embedCall.results)
                    /\ (embedCall'.phase = "running") =>
                          embedCall'.batch = embedCall.batch + 1]_vars

\* a call has returned whose last sub-batch failed twice and then succeeded
C14_Witness ==
    /\ embedCall.phase = "returned"
    /\ embedCall.slept = <<1000, 2000>>
    /\ embedCall.retry = 2
    /\ embedCall.error = "none"
    /\ Len(embedCall.results) = Len(embedCall.texts)

----------------------------------------------------------------------------
(* Properties of search, checked under SpecSearch *)

\* a row satisfies every condition the filter gives; of sessionId and
\* sessionIds the list is the one applied when both are given
FilterMatches(row, filter) ==
    /\ (filter.therapistId # Null) => row.therapistId = filter.therapistId
    /\ (filter.sessionIds # {}) => row.sessionId \in filter.sessionIds
    /\ (filter.sessionIds = {} /\ filter.sessionId # Null) => row.sessionId = filter.sessionId

\* the score of the query of the last search against row j of the store
ScoreOfRow(j) == dotProductSimilarity(embedText("", lastSearch.query), store[j].embedding)

\* the rows the last search may return: matching its filter, at or above its floor
Eligible ==
    {j \in 1..Len(store) : /\ FilterMatches(store[j], lastSearch.filter)
                           /\ ScoreOfRow(j) >= lastSearch.minSimilarity}

NonIncreasing(results) ==
    \A i \in 1..(Len(results) - 1) : results[i].score >= results[i + 1].score

\* C3: a search with filter therapistId = A, by the adapter or by
\* RAGService.search, returns only items of therapist A: an item says so, the
\* stored row with the item's id says so, and an item for a whole session is of
\* a session of A; the adapter's session condition holds as well for each item.
C3_TherapistFilterRespected ==
    (lastSearch.op # "none" /\ lastSearch.filter.therapistId # Null) =>
        \A i \in 1..Len(lastSearch.results) :
            LET item == lastSearch.results[i]
            IN  /\ item.metadata.therapistId = lastSearch.filter.therapistId
                /\ therapistIdOf(item.metadata.sessionId) = lastSearch.filter.therapistId
                /\ \A j \in 1..Len(store) :
                      store[j].id = item.id =>
                          store[j].therapistId = lastSearch.filter.therapistId
                /\ (Len(item.id) = 3) => \E j \in 1..Len(store) : store[j].id = item.id
                /\ (lastSearch.filter.sessionIds # {}) =>
                      item.metadata.sessionId \in lastSearch.filter.sessionIds
                /\ (lastSearch.filter.sessionIds = {} /\ lastSearch.filter.sessionId # Null) =>
                      item.metadata.sessionId = lastSearch.filter.sessionId

\* a hybrid search filtered to therapist tA returned a chunk and a session
\* while a row of therapist tB scored above the floor
C3_Witness ==
    /\ lastSearch.op = "rag"
    /\ lastSearch.filter.therapistId = "tA"
    /\ lastSearch.useHybrid
    /\ \E i, k \in 1..Len(lastSearch.results) :
          Len(lastSearch.results[i].id) = 3 /\ Len(lastSearch.results[k].id) = 1
    /\ \E j \in 1..Len(store) :
          store[j].therapistId = "tB" /\ ScoreOfRow(j) >= lastSearch.minSimilarity

\* C4: for every combination of useHybrid, useReranking and diversityMode the
\* list RAGService.search returns is in non-increasing score order and has no
\* item below minSimilarity.
C4_SortedAndAboveFloor ==
    (lastSearch.op = "rag") =>
        /\ NonIncreasing(lastSearch.results)
        /\ \A i \in 1..Len(lastSearch.results) :
              lastSearch.results[i].score >= lastSearch.minSimilarity

\* C4, amended: the list is in non-increasing score order when neither
\* reranking nor diversity is on, and has no item below minSimilarity when
\* neither hybrid retrieval nor reranking is on.
C4_SortedOrAboveFloorByOptions ==
    (lastSearch.op = "rag") =>
        /\ (~lastSearch.useReranking /\ ~lastSearch.diversityMode) =>
              NonIncreasing(lastSearch.results)
        /\ (~lastSearch.useHybrid /\ ~lastSearch.useReranking) =>
              \A i \in 1..Len(lastSearch.results) :
                  lastSearch.results[i].score >= lastSearch.minSimilarity

\* a plain vector search returned two items of different scores while a row
\* of the therapist scored below the floor
C4_Witness ==
    /\ lastSearch.op = "rag"
    /\ ~lastSearch.useHybrid /\ ~lastSearch.useReranking /\ ~lastSearch.diversityMode
    /\ Len(lastSearch.results) = 2
    /\ lastSearch.results[1].score > lastSearch.results[2].score
    /\ \E j \in 1..Len(store) :
          /\ FilterMatches(store[j], lastSearch.filter)
          /\ ScoreOfRow(j) < lastSearch.minSimilarity

\* C5: the adapter returns min(limit, number of eligible rows) distinct
\* eligible rows with their scores, in non-increasing score order, and no
\* eligible row left out scores above a returned one.
C5_FloorBeforeLimit ==
    (lastSearch.op = "adapter") =>
        LET results == lastSearch.results
            returned == {j \in Eligible : \E i \in 1..Len(results) : results[i].id = store[j].id}
        IN  /\ Len(results) = Min(lastSearch.limit, Cardinality(Eligible))
            /\ \A i \in 1..Len(results) :
                  \E j \in Eligible : /\ store[j].id = results[i].id
                                      /\ results[i].score = ScoreOfRow(j)
            /\ \A i, k \in 1..Len(results) : (i # k) => results[i].id # results[k].id
            /\ NonIncreasing(results)
            /\ \A j \in Eligible \ returned :
                  \A i \in 1..Len(results) : results[i].score >= ScoreOfRow(j)

\* the adapter filled the limit of two from more than two eligible rows, with
\* different scores, while a matching row was below the floor
C5_Witness ==
    /\ lastSearch.op = "adapter"
    /\ lastSearch.limit = 2
    /\ Len(lastSearch.results) = 2
    /\ lastSearch.results[1].score > lastSearch.results[2].score
    /\ Cardinality(Eligible) > 2
    /\ \E j \in 1..Len(store) :
          /\ FilterMatches(store[j], lastSearch.filter)
          /\ ScoreOfRow(j) < lastSearch.minSimilarity

----------------------------------------------------------------------------
(* Properties of the sessions service, checked under SpecSessions *)

\* C6: addEntry saves the entry and answers in the step that only schedules the
\* indexing; a failed background indexing is logged by the sessions service,
\* nothing of it escapes updateSessionEmbedding, and every entry answered to a
\* caller stays saved at its position.
C6_BackgroundFailureContained ==
    [][/\ (entries' # entries) =>
            /\ \E s \in SessionIds :
                /\ Len(entries'[s]) = Len(entries[s]) + 1
                /\ [sessionId |-> s, position |-> Len(entries'[s]),
                    savedEntry |-> entries'[s][Len(entries'[s])]] \in responses'
                /\ pendingIndex'[s] = pendingIndex[s] + 1
            /\ UNCHANGED <<lastCall, inflight, store>>
       /\ unhandled' = {}
       /\ (lastCall'.by = "background" /\ lastCall'.error # "none") =>
            \E rec \in lastCall'.logged :
                /\ rec.logger = "SessionsService"
                /\ rec.sessionId = lastCall'.sessionId
                /\ rec.error = lastCall'.error
       /\ \A resp \in responses' :
            /\ Len(entries'[resp.sessionId]) >= resp.position
            /\ entries'[resp.sessionId][resp.position] = resp.savedEntry]_vars

\* a background indexing has failed after two entries were answered
C6_Witness ==
    /\ lastCall.by = "background"
    /\ lastCall.error # "none"
    /\ Cardinality(responses) >= 2
    /\ unhandled = {}

----------------------------------------------------------------------------
(* Properties of MMR, checked under SpecMMR *)

\* the places of the candidate list the result was taken from
ReturnedPlaces ==
    {k \in 1..Len(lastSearch.candidates) :
        \E i \in 1..Len(lastSearch.results) :
            lastSearch.results[i].id = lastSearch.candidates[k].id}

\* C15: rerankWithMMR with lambda = 1 and topK >= 1 returns min(topK, n) of
\* the n candidates, in non-increasing score order, and no candidate left out
\* scores above a returned one (already for topK >= 1 of the claim's any topK).
C15_LambdaOneIsTopKByRelevance ==
    (lastSearch.op = "mmr" /\ lastSearch.lambda = 10 /\ lastSearch.topK >= 1) =>
        /\ Len(lastSearch.results) = Min(lastSearch.topK, Len(lastSearch.candidates))
        /\ NonIncreasing(lastSearch.results)
        /\ \A k \in (1..Len(lastSearch.candidates)) \ ReturnedPlaces :
              \A i \in 1..Len(lastSearch.results) :
                  lastSearch.results[i].score >= lastSearch.candidates[k].score

\* C16: rerankWithMMR returns no candidate twice and at most topK items, for
\* any candidate list, lambda and topK >= 0.
C16_NoDuplicateAtMostTopK ==
    (lastSearch.op = "mmr") =>
        /\ Len(lastSearch.results) <= lastSearch.topK
        /\ \A i, k \in 1..Len(lastSearch.results) :
              (i # k) => lastSearch.results[i].id # lastSearch.results[k].id
        /\ \A i \in 1..Len(lastSearch.results) :
              \E k \in 1..Len(lastSearch.candidates) :
                  lastSearch.candidates[k] = lastSearch.results[i]

----------------------------------------------------------------------------
(* Properties of reciprocal rank fusion, checked under SpecRRF *)

\* the ranks (one at most) a ranking gives an id
RanksOf(results, id) == {rank \in 1..Len(results) : results[rank].id = id}

\* the ids ranked by exactly one of the two fused lists
InOneListOnly ==
    {id \in RankedIds :
        (RanksOf(lastSearch.semanticResults, id) = {})
            # (RanksOf(lastSearch.keywordResults, id) = {})}

FirstInBoth ==
    /\ lastSearch.op = "rrf"
    /\ lastSearch.semanticResults # << >>
    /\ lastSearch.keywordResults # << >>
    /\ lastSearch.semanticResults[1].id = lastSearch.keywordResults[1].id

\* C17: with the alpha of the search pipeline, the item ranked first in both
\* lists comes out first, strictly above every item of one list only, and an
\* item of one list only comes out once, with that list's weight / (k + rank).
C17_FirstInBothBeforeSingles ==
    (lastSearch.op = "rrf") =>
        /\ FirstInBoth =>
              /\ lastSearch.results[1].id = lastSearch.semanticResults[1].id
              /\ \A i \in 1..Len(lastSearch.results) :
                    (lastSearch.results[i].id \in InOneListOnly) =>
                        /\ i > 1
                        /\ lastSearch.results[i].score < lastSearch.results[1].score
        /\ \A id \in InOneListOnly :
              /\ Cardinality(RanksOf(lastSearch.results, id)) = 1
              /\ \A i \in RanksOf(lastSearch.results, id) :
                    /\ \A rank \in RanksOf(lastSearch.semanticResults, id) :
                          lastSearch.results[i].score
                              = lastSearch.alpha \div (rrfK + rank)
                    /\ \A rank \in RanksOf(lastSearch.keywordResults, id) :
                          lastSearch.results[i].score
                              = (One - lastSearch.alpha) \div (rrfK + rank)

C17_Witness ==
    /\ FirstInBoth
    /\ \E id \in InOneListOnly : RanksOf(lastSearch.semanticResults, id) # {}
    /\ \E id \in InOneListOnly : RanksOf(lastSearch.keywordResults, id) # {}
    /\ Len(lastSearch.results) = 3

----------------------------------------------------------------------------
(* Properties of the search pipeline's retrieval and rerank stages, checked
   under SpecSearch *)

\* the ids of the chunks of the vector store's id space
IsChunkId(id) == Len(id) = 3 /\ id = generateDocumentId(id[1], id[3])

\* the lexical ranking HybridSearchStrategy.search fuses for the last search
LexicalRanking == keywordSearch(lastSearch.query, (lastSearch.limit * 2) * 2, lastSearch.filter)

\* C18: when RAGService.search runs with useHybrid = true, every id of the
\* lexical ranking it fuses is the id of a chunk, as the vector ranking's ids
\* are (search returns a list and has no other way to flag the request).
C18_HybridSameGranularity ==
    (lastSearch.op = "rag" /\ lastSearch.useHybrid) =>
        \A i \in 1..Len(LexicalRanking) : IsChunkId(LexicalRanking[i].id)

\* the last search asked for reranking and neither external tier gave a list:
\* no key, an error, an answer that does not parse or that names no candidate
ExternalTiersUnusable ==
    /\ lastSearch.op = "rag"
    /\ lastSearch.useReranking
    /\ lastSearch.reranker.cohere \in {"absent", "throws"}
    /\ lastSearch.reranker.openai \in {"absent", "throws", "unparseable", "outOfRange"}

\* C19: when the external rerank tiers are unusable and the retrieval stage
\* returned candidates, RAGService.search returns a non-empty list, each item
\* of it one of the retrieved candidates (by id).
C19_DegradesToRetrieved ==
    (ExternalTiersUnusable /\ lastSearch.retrieved # << >>) =>
        /\ lastSearch.results # << >>
        /\ \A i \in 1..Len(lastSearch.results) :
              \E k \in 1..Len(lastSearch.retrieved) :
                  lastSearch.retrieved[k].id = lastSearch.results[i].id

\* the log entries that tell of a rerank tier that failed
FallbackLogs == {"Cohere rerank failed, falling back", "OpenAI rerank failed, falling back",
                 "OpenAI rerank parse failed"}

\* C20: a RAGService.search whose rerank stage scored the candidates with the
\* local lexical overlap leaves a log entry that tells so (the results carry
\* no field that names the tier), also when no API key is configured.
C20_LocalFallbackIsVisible ==
    (ExternalTiersUnusable /\ lastSearch.retrieved # << >>) =>
        lastSearch.logged \cap FallbackLogs # {}

----------------------------------------------------------------------------
(* Properties of deletion, checked under SpecDelete *)

\* the step is a call of delete or deleteByMetadata
DeleteStep == lastSearch' # lastSearch /\ lastSearch'.op \in {"delete", "deleteByMetadata"}

\* no row of the store is what the call of the step asks to delete
NothingToDelete ==
    IF lastSearch'.op = "delete"
    THEN \A i \in 1..Len(store) : store[i].id # lastSearch'.id
    ELSE \A i \in 1..Len(store) : ~deleteWhere(store[i], lastSearch'.filter)

\* C21: delete(id) of an id that is not stored, and deleteByMetadata(filter)
\* of a filter no stored chunk matches, throw their not-found error and leave
\* the store as it was.
C21_DeleteOfNothingThrows ==
    [][(DeleteStep /\ NothingToDelete) =>
          /\ store' = store
          /\ lastSearch'.affected = 0
          /\ lastSearch'.thrown = (IF lastSearch'.op = "delete" THEN ErrVectorNotFound
                                   ELSE ErrNoVectorsMatch)]_vars

C21_Witness ==
    /\ lastSearch.op = "deleteByMetadata"
    /\ lastSearch.thrown = ErrNoVectorsMatch
    /\ lastSearch.filter.sessionId = "s1"
    /\ lastSearch.call = 2
    /\ Len(store) > 0

\* the rows of the store that match every property the filter gives
RECURSIVE WithoutMatches(_, _)
WithoutMatches(rows, filter) ==
    IF rows = << >> THEN << >>
    ELSE (IF /\ (filter.therapistId # Null) => Head(rows).therapistId = filter.therapistId
             /\ (filter.sessionId # Null) => Head(rows).sessionId = filter.sessionId
             /\ (filter.clientId # Null) => Head(rows).clientId = filter.clientId
          THEN << >> ELSE <<Head(rows)>>)
         \o WithoutMatches(Tail(rows), filter)

\* C30: deleteByMetadata(filter) removes exactly the rows that match every
\* property given among therapistId, sessionId and clientId, the others staying
\* as they were; a filter that gives none of the three is rejected and nothing
\* is deleted.
C30_DeleteByMetadataExactAndGuarded ==
    [][(lastSearch' # lastSearch /\ lastSearch'.op = "deleteByMetadata") =>
          IF lastSearch'.filter = DeleteFilter(Null, Null, Null)
          THEN store' = store /\ lastSearch'.thrown # ""
          ELSE store' = WithoutMatches(store, lastSearch'.filter)]_vars

----------------------------------------------------------------------------
(* Properties of contextual retrieval, checked under SpecContextual *)

\* C22: the documents indexDocument committed last for a session, and their
\* rows in the store, hold the chunker's chunk texts in order; a chunk whose
\* context summary came back '' (the completion failed) is indexed all the
\* same, with the vector of its raw text, contextualized = false and no
\* contextSummary.
C22_OriginalTextStoredContextBestEffort ==
    \A s \in IndexedSessions :
        LET batch == lastIndexed[s]
            chunks == process(batch.text, Metadata(s, batch.sessionEntries))
        IN  (batch.documents # << >>) =>
                /\ Len(batch.documents) = Len(chunks)
                /\ \A i \in 1..Len(chunks) :
                      /\ batch.documents[i].text = chunks[i].text
                      /\ \E j \in 1..Len(store) :
                            /\ store[j].id = generateDocumentId(s, i - 1)
                            /\ store[j].text = chunks[i].text
                            /\ store[j].embedding = batch.documents[i].embedding
                            /\ store[j].contextSummary
                                  = batch.documents[i].metadata.contextSummary
                      /\ (batch.contexts[i] = "") =>
                            /\ batch.documents[i].embedding = embedText("", chunks[i].text)
                            /\ batch.documents[i].metadata.contextualized = FALSE
                            /\ batch.documents[i].metadata.contextSummary = Null

C22_Witness ==
    /\ contextualRetrievalEnabled
    /\ lastCall.error = "none"
    /\ lastCall.sessionId = "s1"
    /\ \E i, k \in 1..Len(lastIndexed["s1"].contexts) :
          /\ lastIndexed["s1"].contexts[i] = ""
          /\ lastIndexed["s1"].contexts[k] # ""
          /\ \E j \in 1..Len(store) :
                /\ store[j].id = generateDocumentId("s1", i - 1)
                /\ store[j].contextSummary = Null
                /\ store[j].embedding
                      = embedText("", process(lastIndexed["s1"].text,
                                              Metadata("s1", << >>))[i].text)

----------------------------------------------------------------------------
(* Properties of concurrent indexing, checked under SpecInterleaved *)

\* the places of the store that a step wrote: new, or not what they were
Written == {j \in 1..Len(store') : j > Len(store) \/ store'[j] # store[j]}

\* C29: a step writes rows of one session A only, the session of an
\* indexDocument call whose transaction was open: each row written is a
\* document of that call with an id A_chunk_i, a row overwritten was A's row
\* of the same id, and every row of another session stays as it was.
C29_OnlyOwnSessionChunksWritten ==
    [][/\ Len(store') >= Len(store)
       /\ (Written # {}) =>
             \E r \in 1..Len(inflight) :
                 LET A == inflight[r].metadata.sessionId
                 IN  /\ \A j \in Written :
                           /\ store'[j].sessionId = A
                           /\ store'[j].id[1] = A /\ store'[j].id[2] = "chunk"
                           /\ \E i \in 1..Len(inflight[r].documents) :
                                 /\ store'[j].id[3] = i - 1
                                 /\ store'[j] = SessionChunk(inflight[r].documents[i])
                           /\ (j <= Len(store)) => store[j].id = store'[j].id
                     /\ \A j \in 1..Len(store) :
                           (store[j].sessionId # A) => store'[j] = store[j]]_vars

C29_Witness ==
    /\ lastIndexed["s1"].documents # << >>
    /\ lastIndexed["s2"].documents # << >>
    /\ lastCall.sessionId = "s1" /\ lastCall.error = "none" /\ lastCall.repeat = FALSE
    /\ Len(lastIndexed["s1"].documents) > 1
    /\ \E j \in 1..Len(store) : store[j].sessionId = "s2"
    /\ \E r \in 1..Len(inflight) :
          inflight[r].metadata.sessionId = "s2" /\ inflight[r].saved > 0

----------------------------------------------------------------------------
(* Properties of the chunker, checked under SpecChunk *)

\* what process writes into a chunk's metadata about the chunk itself (the
\* caller's metadata apart); a marker would be a further property
ChunkFacts == {"chunkIndex", "totalChunks", "tokenCount"}

\* the chunk holds a line or sentence that alone is over the budget
HoldsOversized(chunk) ==
    \E k \in 1..Len(chunk.text) : countTokens(chunk.text[k]) > maxChunkSize

\* C23: a line or sentence of more than 512 tokens comes out whole in a chunk,
\* and the metadata of that chunk carries a marker that it is oversized.
C23_OversizedWholeAndMarked ==
    (lastSearch.op = "process") =>
        /\ \A k \in 1..Len(lastSearch.text) :
              (countTokens(lastSearch.text[k]) > maxChunkSize) =>
                  \E i \in 1..Len(lastSearch.chunks) :
                      \E j \in 1..Len(lastSearch.chunks[i].text) :
                          lastSearch.chunks[i].text[j] = lastSearch.text[k]
        /\ \A i \in 1..Len(lastSearch.chunks) :
              HoldsOversized(lastSearch.chunks[i]) =>
                  (DOMAIN lastSearch.chunks[i].metadata) \ ChunkFacts # {}

\* C24: every chunk has at most maxChunkSize tokens, unless it is one single
\* line or sentence that alone is over the budget.
C24_ChunkWithinBudget ==
    (lastSearch.op = "process") =>
        \A i \in 1..Len(lastSearch.chunks) :
            \/ lastSearch.chunks[i].metadata.tokenCount <= maxChunkSize
            \/ Len(lastSearch.chunks[i].text) = 1 /\ HoldsOversized(lastSearch.chunks[i])

\* C27: in dialogue mode every chunk that is followed by another ends on two
\* lines spoken by different speakers.
C27_ChunkEndsOnCompleteExchange ==
    (lastSearch.op = "process" /\ detectSpeakerTurns(lastSearch.text)) =>
        \A i \in 1..(Len(lastSearch.chunks) - 1) :
            LET lines == lastSearch.chunks[i].text
            IN  /\ Len(lines) >= 2
                /\ lines[Len(lines)].speaker # "none"
                /\ lines[Len(lines) - 1].speaker # "none"
                /\ lines[Len(lines)].speaker # lines[Len(lines) - 1].speaker

----------------------------------------------------------------------------
(* Properties of the similarity of MMR, checked under SpecMMR *)

\* the similarity of a pair: by the embeddings when both items have one, by
\* the texts otherwise
PairSimilarity(a, b) ==
    IF a.embedding # << >> /\ b.embedding # << >>
    THEN dotProduct(a.embedding, b.embedding)
    ELSE tfCosineSimilarity(a.text, b.text)

\* the MMR score, times ten, of a candidate against the items returned before
\* place p, with the similarity of each pair chosen by itself
PairwiseScore(c, p) ==
    LET all == {PairSimilarity(c, lastSearch.results[q]) : q \in 1..(p - 1)}
    IN  lastSearch.lambda * c.score
            - (10 - lastSearch.lambda) * (CHOOSE m \in all : \A x \in all : x <= m)

\* C25: every item rerankWithMMR returns after the first is a candidate whose
\* MMR score is the highest among the candidates not returned before it, where
\* the similarity of a candidate to each item already returned is the dot
\* product of the embeddings if both have one and the term-frequency cosine of
\* the texts only otherwise, also in a list where some items have no embedding.
C25_SimilarityChosenPerPair ==
    (lastSearch.op = "mmr") =>
        \A p \in 2..Len(lastSearch.results) :
            \A k \in 1..Len(lastSearch.candidates) :
                (\A q \in 1..(p - 1) : lastSearch.results[q].id # lastSearch.candidates[k].id) =>
                    PairwiseScore(lastSearch.candidates[k], p)
                        <= PairwiseScore(lastSearch.results[p], p)

\* a list with an item without embedding, from which two items with embeddings
\* were returned whose dot product is not the cosine of their texts, and an
\* item without embedding was returned too
C25_Witness ==
    /\ lastSearch.op = "mmr"
    /\ Len(lastSearch.results) = 3
    /\ \E i, j, k \in 1..3 :
          /\ i < j
          /\ lastSearch.results[i].embedding # << >>
          /\ lastSearch.results[j].embedding # << >>
          /\ lastSearch.results[k].embedding = << >>
          /\ dotProduct(lastSearch.results[i].embedding, lastSearch.results[j].embedding)
                # tfCosineSimilarity(lastSearch.results[i].text, lastSearch.results[j].text)

----------------------------------------------------------------------------
(* Properties of the relevance reranker, checked under SpecRerank *)

\* the highest score among the results of the call
TopScore ==
    LET all == {lastSearch.results[i].score : i \in 1..Len(lastSearch.results)}
    IN  CHOOSE m \in all : \A x \in all : x <= m

\* the relevance floor for a top score: max(0.1, 0.5 * top) above 0.2, else 0.1
Floor(topScore) ==
    IF topScore > 200000 THEN Max(MIN_RELEVANCE_THRESHOLD, topScore \div 2)
    ELSE MIN_RELEVANCE_THRESHOLD

\* C26: whichever tier scored the candidates, every result of rerank has a
\* score of at least the floor, which is max(0.1, half the top score) if the
\* top score exceeds 0.2 and 0.1 otherwise.
C26_EveryResultAboveFloor ==
    (lastSearch.op = "rerank") =>
        \A i \in 1..Len(lastSearch.results) :
            lastSearch.results[i].score >= Floor(TopScore)

\* C28: for every tier, the list rerank returns holds input candidates only,
\* each of them at most once, and at most topK items, whatever indices the
\* external service answers with.
C28_OnlyCandidatesOnceAtMostTopK ==
    (lastSearch.op = "rerank") =>
        /\ Len(lastSearch.results) <= lastSearch.topK
        /\ \A i \in 1..Len(lastSearch.results) :
              \E k \in 1..Len(lastSearch.candidates) :
                  lastSearch.candidates[k].id = lastSearch.results[i].id
        /\ \A i, k \in 1..Len(lastSearch.results) :
              (i # k) => lastSearch.results[i].id # lastSearch.results[k].id

====
